---- MODULE Spec2Model ----
(* State-machine model of the file-backed stores of the sports-shop        *)
(* assistant: the product catalog (products.json), the single-slot cart    *)
(* (cart.json) and the order collection (orders.json), with the cart       *)
(* operations of CartFunctions and the read paths of ProductFunctions and  *)
(* OrderFunctions, the dispatch of the model's replies by                 *)
(* GeminiChatbot.chat, and the session loop of the CLI.                    *)
EXTENDS Integers, Sequences, FiniteSets, TLC

VARIABLES
    products,    \* contents of products.json: a sequence of products
    cartFile,    \* cart.json: [exists, user_id, items]
    ordersFile,  \* orders.json: [exists, orders]
    edits,       \* number of out-of-band catalog edits made so far
    steps,       \* number of calls and edits made so far
    last,        \* the last operation called: its arguments and its result
    turn,        \* the last chat turn: message, model reply, chat's response
    chat_history,\* the history the CLI holds between turns
    session      \* the CLI session: where run() is, and what it last did

vars ==
    <<products, cartFile, ordersFile, edits, steps, last, turn, chat_history,
      session>>

----------------------------------------------------------------------------
(* Bounds of the model *)

MaxQty == 2          \* largest quantity argument
QtyBelow == 1        \* quantity arguments go down to -QtyBelow
MaxSteps == 3        \* calls and edits in one run
MaxEdits == 1        \* out-of-band edits of products.json
MaxTurns == 2        \* chat turns in one session

Users == {"u1", "u2"}
ProductIds == {"A", "B"}
Prices == {5, 10}
\* Stock levels an out-of-band edit sets: sold out, or one left
StockLevels == {0, 1}
\* Quantity arguments, the valid ones first: 1..MaxQty, then 0, -1, ...,
\* -QtyBelow
QuantityArgs == 1..(MaxQty + QtyBelow + 1)
Quantity(k) == IF k <= MaxQty THEN k ELSE MaxQty + 1 - k
Quantities == {Quantity(k) : k \in QuantityArgs}
\* Values of "ORD" + the first six hex digits of a uuid4
OrderIds == {"ORD3F9A1C", "ORDB07E52"}

----------------------------------------------------------------------------
(* Texts that are searched or compared letter by letter: a text is the    *)
(* sequence of its characters                                              *)

UpperCase ==
    <<"A", "B", "C", "D", "E", "F", "G", "H", "I", "J", "K", "L", "M",
      "N", "O", "P", "Q", "R", "S", "T", "U", "V", "W", "X", "Y", "Z">>

LowerCase ==
    <<"a", "b", "c", "d", "e", "f", "g", "h", "i", "j", "k", "l", "m",
      "n", "o", "p", "q", "r", "s", "t", "u", "v", "w", "x", "y", "z">>

lower_char(c) ==
    IF \E i \in DOMAIN UpperCase : UpperCase[i] = c
    THEN LowerCase[CHOOSE i \in DOMAIN UpperCase : UpperCase[i] = c]
    ELSE c

\* An input compared as it was typed
lower_as_typed(text) == text

\* str.lower()
lower(text) == [i \in DOMAIN text |-> lower_char(text[i])]

\* sub in text
contains(text, sub) ==
    \E i \in 1..(Len(text) - Len(sub) + 1) : SubSeq(text, i, i + Len(sub) - 1) = sub

----------------------------------------------------------------------------
(* Catalog store: ProductFunctions *)

Product(id, price, stock) == [id |-> id, price |-> price, stock |-> stock]

\* The seeded products.json
SeedProducts == <<Product("A", 10, 3), Product("B", 5, 1)>>

\* The value Python's None stands for in a product lookup
NoProduct == [id |-> "", price |-> 0, stock |-> 0]

_load_products(file) == file

MinOf(S) == CHOOSE x \in S : \A y \in S : x <= y

get_product_by_id(file, product_id) ==
    LET ps == _load_products(file)
        hits == {i \in 1..Len(ps) : ps[i].id = product_id}
    IN IF hits = {} THEN NoProduct ELSE ps[MinOf(hits)]

\* The availability of a product in a quantity, with the stock on hand
check_product_availability_any_quantity(file, product_id, quantity) ==
    LET product == get_product_by_id(file, product_id)
    IN IF product = NoProduct
       THEN [available |-> FALSE, message |-> "Product not found", stock |-> 0]
       ELSE [available |-> TRUE, message |-> "Available", stock |-> product.stock]

\* A check that takes a product the catalog lacks for an available one
check_product_availability_unknown_ok(file, product_id, quantity) ==
    LET product == get_product_by_id(file, product_id)
    IN [available |-> product.stock >= quantity,
        message |-> IF product.stock >= quantity THEN "Available"
                    ELSE "Not enough stock",
        stock |-> product.stock]

check_product_availability(file, product_id, quantity) ==
    LET product == get_product_by_id(file, product_id)
    IN IF product = NoProduct
       THEN [available |-> FALSE, message |-> "Product not found", stock |-> 0]
       ELSE [available |-> product.stock >= quantity,
             message |-> IF product.stock >= quantity THEN "Available"
                         ELSE "Not enough stock",
             stock |-> product.stock]

\* A product with the fields the search reads and returns
Described(product, name, category, description) ==
    product @@ [name |-> name, category |-> category,
                description |-> description, brand |-> "WRTeam"]

\* Product.to_dict
to_dict(product) ==
    [id |-> product.id, name |-> product.name, category |-> product.category,
     price |-> product.price, description |-> product.description,
     stock |-> product.stock, brand |-> product.brand]

\* A price bound of the search: None, or a number
NoBound == [given |-> FALSE, value |-> 0]
Bound(n) == [given |-> TRUE, value |-> n]

\* if query and query.lower() not in name.lower() and ... description.lower()
matches_query(product, query) ==
    \/ query = <<>>
    \/ contains(lower(product.name), lower(query))
    \/ contains(lower(product.description), lower(query))

\* if category and category.lower() != product.category.lower()
matches_category(product, category) ==
    \/ category = <<>>
    \/ lower(category) = lower(product.category)

\* A price filter that drops the products priced at a bound
within_price_exclusive(product, max_price, min_price) ==
    /\ ~(max_price.given /\ product.price >= max_price.value)
    /\ ~(min_price.given /\ product.price <= min_price.value)

\* The two price filters
within_price(product, max_price, min_price) ==
    /\ ~(max_price.given /\ product.price > max_price.value)
    /\ ~(min_price.given /\ product.price < min_price.value)

RECURSIVE search_results(_, _, _, _, _)
search_results(products_, query, category, max_price, min_price) ==
    IF products_ = <<>> THEN <<>>
    ELSE (IF /\ matches_query(Head(products_), query)
             /\ matches_category(Head(products_), category)
             /\ within_price(Head(products_), max_price, min_price)
          THEN <<to_dict(Head(products_))>>
          ELSE <<>>)
         \o search_results(Tail(products_), query, category, max_price, min_price)

search_products(file, query, category, max_price, min_price) ==
    search_results(_load_products(file), query, category, max_price, min_price)

----------------------------------------------------------------------------
(* Cart store: CartFunctions *)

CartItem(product_id, quantity, price) ==
    [product_id |-> product_id, quantity |-> quantity, price |-> price]

Cart(user_id, items) == [user_id |-> user_id, items |-> items]

NoCartFile == [exists |-> FALSE, user_id |-> "", items |-> <<>>]

_load_cart_ignores_file(file, user_id) == Cart(user_id, <<>>)

_load_cart_any_user(file, user_id) ==
    IF file.exists THEN Cart(file.user_id, file.items) ELSE Cart(user_id, <<>>)

_load_cart(file, user_id) ==
    IF file.exists /\ file.user_id = user_id
    THEN Cart(file.user_id, file.items)
    ELSE Cart(user_id, <<>>)

_save_cart(cart) ==
    [exists |-> TRUE, user_id |-> cart.user_id, items |-> cart.items]

\* The dict an operation returns; product_id is the product the message
\* names, order_id and total are set by a successful checkout only.
Result(success, message, product_id) ==
    [success |-> success, message |-> message, product_id |-> product_id,
     order_id |-> "", total |-> 0]

\* Index of the first cart line for product_id, 0 when there is none
FirstLine(items, product_id) ==
    LET hits == {i \in 1..Len(items) : items[i].product_id = product_id}
    IN IF hits = {} THEN 0 ELSE MinOf(hits)

\* add_to_cart's search for a line of the product already in the cart
existing_item_always_none(items, product_id) == 0

existing_item(items, product_id) == FirstLine(items, product_id)

\* The existing line after a repeated add: the quantities are summed
merged_item_replaces(item, quantity) == [item EXCEPT !.quantity = quantity]

merged_item(item, quantity) ==
    [item EXCEPT !.quantity = item.quantity + quantity]

\* The availability check of the merged total quantity
merged_available_unchecked(catalog, product_id, new_quantity) == TRUE

merged_available(catalog, product_id, new_quantity) ==
    check_product_availability(catalog, product_id, new_quantity).available

\* add_to_cart: the returned dict and the contents of cart.json afterwards
add_to_cart(catalog, file, product_id, quantity, user_id) ==
    LET product == get_product_by_id(catalog, product_id)
        availability == check_product_availability(catalog, product_id, quantity)
        cart == _load_cart(file, user_id)
        i == existing_item(cart.items, product_id)
        new_quantity == cart.items[i].quantity + quantity
    IN IF product = NoProduct
       THEN [result |-> Result(FALSE, "Product not found", product_id), file |-> file]
       ELSE IF ~availability.available
       THEN [result |-> Result(FALSE, availability.message, product_id), file |-> file]
       ELSE IF i # 0
       THEN IF ~merged_available(catalog, product_id, new_quantity)
            THEN [result |-> Result(FALSE, "Cannot add more", product_id), file |-> file]
            ELSE [result |-> Result(TRUE, "Added", product_id),
                  file |-> _save_cart(Cart(cart.user_id,
                              [cart.items EXCEPT ![i] = merged_item(cart.items[i], quantity)]))]
       ELSE [result |-> Result(TRUE, "Added", product_id),
             file |-> _save_cart(Cart(cart.user_id,
                         Append(cart.items, CartItem(product_id, quantity, product.price))))]

\* cart.items.pop(i): the lines without line i
pop_item_truncates(items, i) == SubSeq(items, 1, i - 1)

pop_item(items, i) == SubSeq(items, 1, i - 1) \o SubSeq(items, i + 1, Len(items))

\* remove_from_cart: the first line for product_id is popped and the cart saved
remove_from_cart(catalog, file, product_id, user_id) ==
    LET cart == _load_cart(file, user_id)
        i == FirstLine(cart.items, product_id)
    IN IF i # 0
       THEN [result |-> Result(TRUE, "Removed", product_id),
             file |-> _save_cart(Cart(cart.user_id,
                         pop_item(cart.items, i)))]
       ELSE [result |-> Result(FALSE, "Product not found in cart", product_id),
             file |-> file]

\* update_cart_quantity hands a quantity of zero or less to remove_from_cart
delegates_to_remove_negative_only(quantity) == quantity < 0

delegates_to_remove(quantity) == quantity <= 0

\* The cart line after an update: the new quantity overwrites the old one
updated_item_adds(item, quantity) ==
    [item EXCEPT !.quantity = item.quantity + quantity]

updated_item(item, quantity) == [item EXCEPT !.quantity = quantity]

update_cart_quantity(catalog, file, product_id, quantity, user_id) ==
    LET availability == check_product_availability(catalog, product_id, quantity)
        cart == _load_cart(file, user_id)
        i == FirstLine(cart.items, product_id)
    IN IF delegates_to_remove(quantity)
       THEN remove_from_cart(catalog, file, product_id, user_id)
       ELSE IF ~availability.available
       THEN [result |-> Result(FALSE, availability.message, product_id), file |-> file]
       ELSE IF i # 0
       THEN [result |-> Result(TRUE, "Updated", product_id),
             file |-> _save_cart(Cart(cart.user_id,
                         [cart.items EXCEPT ![i] = updated_item(cart.items[i], quantity)]))]
       ELSE [result |-> Result(FALSE, "Product not found in cart", product_id),
             file |-> file]

\* The entry view_cart lists for a cart line whose product the catalog has
view_item_current_price(product, item) ==
    [product_id |-> item.product_id, price |-> product.price,
     quantity |-> item.quantity, item_total |-> product.price * item.quantity]

view_item(product, item) ==
    [product_id |-> item.product_id, price |-> item.price,
     quantity |-> item.quantity, item_total |-> item.price * item.quantity]

\* view_cart's loop over the cart lines: the entries listed, lines of
\* products the catalog lacks being skipped
RECURSIVE cart_items(_, _)
cart_items(catalog, items) ==
    IF items = <<>> THEN <<>>
    ELSE LET item == Head(items)
             product == get_product_by_id(catalog, item.product_id)
         IN (IF product # NoProduct THEN <<view_item(product, item)>> ELSE <<>>)
                \o cart_items(catalog, Tail(items))

RECURSIVE view_total(_)
view_total(entries) ==
    IF entries = <<>> THEN 0
    ELSE Head(entries).item_total + view_total(Tail(entries))

\* view_cart: the returned dict; nothing is written
view_cart(catalog, file, user_id) ==
    LET cart == _load_cart(file, user_id)
        entries == cart_items(catalog, cart.items)
    IN [items |-> entries, total |-> view_total(entries),
        item_count |-> Len(entries)]

\* clear_cart: an empty cart of the user is saved over whatever is stored
clear_cart_default_user(user_id) ==
    [result |-> Result(TRUE, "Cart cleared", ""),
     file |-> _save_cart(Cart("user123", <<>>))]

clear_cart(user_id) ==
    [result |-> Result(TRUE, "Cart cleared", ""),
     file |-> _save_cart(Cart(user_id, <<>>))]

----------------------------------------------------------------------------
(* Order store: the order collection written by checkout, read by          *)
(* OrderFunctions                                                          *)

Order(id, user_id, items, total, status, created_at) ==
    [id |-> id, user_id |-> user_id, items |-> items, total |-> total,
     status |-> status, created_at |-> created_at]

NoOrdersFile == [exists |-> FALSE, orders |-> <<>>]

\* A missing orders.json reads as the empty list
_load_orders(file) == IF file.exists THEN file.orders ELSE <<>>

RECURSIVE SelectOrders(_, _)
SelectOrders(orders, user_id) ==
    IF orders = <<>> THEN <<>>
    ELSE (IF Head(orders).user_id = user_id THEN <<Head(orders)>> ELSE <<>>)
             \o SelectOrders(Tail(orders), user_id)

get_user_orders(file, user_id) == SelectOrders(_load_orders(file), user_id)

_get_estimated_delivery(status) ==
    CASE status = "pending" -> "Order is being processed. Estimated delivery: 3-5 business days"
      [] status = "processing" -> "Order is being prepared. Estimated delivery: 2-4 business days"
      [] status = "shipped" -> "Order has been shipped. Estimated delivery: 1-2 business days"
      [] status = "delivered" -> "Order has been delivered"
      [] status = "cancelled" -> "Order has been cancelled"
      [] OTHER -> "Status unknown"

\* The value Python's None stands for in track_order
NoTrack == [order_id |-> "", status |-> "", created_at |-> 0, total |-> 0,
            items |-> <<>>, estimated_delivery |-> ""]

\* A lookup that keeps the last order of the id
track_order_last_hit(file, order_id) ==
    LET orders == _load_orders(file)
        hits == {i \in 1..Len(orders) : orders[i].id = order_id}
        order == orders[CHOOSE i \in hits : \A j \in hits : j <= i]
    IN IF hits = {} THEN NoTrack
       ELSE [order_id |-> order.id, status |-> order.status,
             created_at |-> order.created_at, total |-> order.total,
             items |-> order.items,
             estimated_delivery |-> _get_estimated_delivery(order.status)]

track_order(file, order_id) ==
    LET orders == _load_orders(file)
        hits == {i \in 1..Len(orders) : orders[i].id = order_id}
        order == orders[MinOf(hits)]
    IN IF hits = {} THEN NoTrack
       ELSE [order_id |-> order.id, status |-> order.status,
             created_at |-> order.created_at, total |-> order.total,
             items |-> order.items,
             estimated_delivery |-> _get_estimated_delivery(order.status)]

\* list.sort(key=created_at, reverse=True): the newest first, orders of one
\* created_at in the order they had
RECURSIVE sort_newest_first(_)
sort_newest_first(orders) ==
    IF orders = <<>> THEN <<>>
    ELSE LET sorted == sort_newest_first(SubSeq(orders, 1, Len(orders) - 1))
             order == orders[Len(orders)]
             before == {i \in 1..Len(sorted) :
                           sorted[i].created_at >= order.created_at}
         IN SubSeq(sorted, 1, Cardinality(before)) \o <<order>>
                \o SubSeq(sorted, Cardinality(before) + 1, Len(sorted))

\* orders[:limit]: the first limit orders, and for a limit below zero all
\* but the last -limit
slice_to(orders, limit) ==
    IF limit >= 0
    THEN SubSeq(orders, 1, IF limit > Len(orders) THEN Len(orders) ELSE limit)
    ELSE SubSeq(orders, 1, Len(orders) + limit)

get_order_history(file, user_id, limit) ==
    slice_to(sort_newest_first(get_user_orders(file, user_id)), limit)

----------------------------------------------------------------------------
(* checkout *)

\* Index of the first cart line the availability re-check rejects, 0 if none
FirstUnavailable_no_recheck(catalog, items) == 0

FirstUnavailable(catalog, items) ==
    LET bad == {i \in 1..Len(items) :
                   ~check_product_availability(catalog, items[i].product_id,
                                               items[i].quantity).available}
    IN IF bad = {} THEN 0 ELSE MinOf(bad)

RECURSIVE SumLines(_)
SumLines(items) ==
    IF items = <<>> THEN 0
    ELSE Head(items).price * Head(items).quantity + SumLines(Tail(items))

\* orders.json after the new order is saved: the stored list (empty when the
\* file is missing) with the order appended
save_order_overwrites(ofile, order) == [exists |-> TRUE, orders |-> <<order>>]

save_order(ofile, order) ==
    [exists |-> TRUE, orders |-> Append(_load_orders(ofile), order)]

\* A checkout that takes the quantities ordered off the stock
products_after_order_less_stock(catalog, items) ==
    [i \in DOMAIN catalog |->
        [catalog[i] EXCEPT !.stock =
            IF FirstLine(items, catalog[i].id) = 0 THEN @
            ELSE @ - items[FirstLine(items, catalog[i].id)].quantity]]

\* products.json after a checkout of items: checkout writes orders.json and
\* cart.json and nothing else
products_after_order(catalog, items) == catalog

\* checkout: the returned dict and the contents of cart.json and orders.json
\* afterwards; uuid is the value of the uuid prefix, now that of datetime.now()
checkout(catalog, file, ofile, user_id, uuid, now) ==
    LET cart == _load_cart(file, user_id)
        bad == FirstUnavailable(catalog, cart.items)
        order_items == cart.items
        total == SumLines(cart.items)
        order == Order(uuid, user_id, order_items, total, "pending", now)
    IN IF cart.items = <<>>
       THEN [result |-> Result(FALSE, "Cart is empty", ""),
             file |-> file, ofile |-> ofile]
       ELSE IF bad # 0
       THEN [result |-> Result(FALSE, "no longer available in requested quantity",
                               cart.items[bad].product_id),
             file |-> file, ofile |-> ofile]
       ELSE [result |-> [Result(TRUE, "Order placed successfully", "")
                            EXCEPT !.order_id = uuid, !.total = total],
             file |-> clear_cart(user_id).file,
             ofile |-> save_order(ofile, order)]

----------------------------------------------------------------------------
(* Dispatch of a model reply: GeminiChatbot.chat *)

\* The names in function_map
function_map ==
    {"search_products", "get_product_by_id", "check_product_availability",
     "track_order", "get_user_orders", "get_order_history",
     "add_to_cart", "remove_from_cart", "update_cart_quantity", "view_cart",
     "clear_cart", "checkout",
     "get_help", "get_store_info", "report_issue", "get_size_guide"}

\* The names of the declarations _create_function_declarations returns,
\* which are the tools the model is created with
function_declarations ==
    {"search_products", "add_to_cart", "view_cart", "track_order",
     "get_user_orders", "get_help"}

\* Argument values as the model sends them: numbers and strings
Num(n) == [type |-> "number", n |-> n, s |-> ""]
Str(s) == [type |-> "string", n |-> 0, s |-> s]

\* func_args: a map from argument names to values; NoArgs is {}
NoArgs == [k \in {} |-> Str("")]

\* A part of the reply carries a function call or a text; the one it does
\* not carry is falsy
FunctionCall(name, args) == [name |-> name, args |-> args]
NoFunctionCall == FunctionCall("", NoArgs)
CallPart(name, args) == [function_call |-> FunctionCall(name, args), text |-> ""]
TextPart(text) == [function_call |-> NoFunctionCall, text |-> text]

\* The model's reply to send_message: its parts, or the call fails
Reply(parts) == [failed |-> FALSE, parts |-> parts]
FailedInference == [failed |-> TRUE, parts |-> <<>>]

\* The keyword parameters of the registered callables, and those without a
\* default
Parameters(func_name) ==
    CASE func_name \in {"add_to_cart", "update_cart_quantity"}
             -> {"product_id", "quantity", "user_id"}
      [] func_name = "remove_from_cart" -> {"product_id", "user_id"}
      [] func_name \in {"view_cart", "clear_cart", "checkout"} -> {"user_id"}
      [] func_name = "search_products"
             -> {"query", "category", "max_price", "min_price"}

RequiredParameters(func_name) ==
    CASE func_name = "update_cart_quantity" -> {"product_id", "quantity"}
      [] func_name \in {"add_to_cart", "remove_from_cart"} -> {"product_id"}
      [] func_name \in {"view_cart", "clear_cart", "checkout", "search_products"}
             -> {}

\* self.function_map[func_name](**func_args): the call returns a result or
\* raises, and leaves cart.json and orders.json as file and ofile
invoke(catalog, file, ofile, func_name, func_args, uuid, now) ==
    LET keys == DOMAIN func_args
        product_id == func_args.product_id.s
        quantity == IF "quantity" \in keys THEN func_args.quantity.n ELSE 1
        user_id == IF "user_id" \in keys THEN func_args.user_id.s ELSE "user123"
        quantity_is_str ==
            "quantity" \in keys /\ func_args.quantity.type = "string"
        raises(e) == [raised |-> TRUE, error |-> e, file |-> file, ofile |-> ofile]
        returns(r) == [raised |-> FALSE, result |-> r.result, file |-> r.file,
                       ofile |-> ofile]
        text_arg(key) == IF key \in keys THEN func_args[key].s ELSE <<>>
        bound_arg(key) == IF key \in keys THEN Bound(func_args[key].n) ELSE NoBound
        bound_is_str(key) == key \in keys /\ func_args[key].type = "string"
        \* a product reaches the comparison of its price with max_price, and
        \* one reaches the comparison with min_price
        compares_max ==
            \E i \in 1..Len(catalog) :
                /\ matches_query(catalog[i], text_arg("query"))
                /\ matches_category(catalog[i], text_arg("category"))
        compares_min ==
            \E i \in 1..Len(catalog) :
                /\ matches_query(catalog[i], text_arg("query"))
                /\ matches_category(catalog[i], text_arg("category"))
                /\ within_price(catalog[i], bound_arg("max_price"), NoBound)
    IN IF func_name \notin
              {"add_to_cart", "remove_from_cart", "update_cart_quantity",
               "view_cart", "clear_cart", "checkout", "search_products"}
       THEN raises("KeyError")
       ELSE IF keys \ Parameters(func_name) # {}
       THEN raises("got an unexpected keyword argument")
       ELSE IF RequiredParameters(func_name) \ keys # {}
       THEN raises("missing required positional argument")
       ELSE CASE func_name = "add_to_cart" ->
                     IF get_product_by_id(catalog, product_id) # NoProduct
                        /\ quantity_is_str
                     THEN raises("'>=' not supported between 'int' and 'str'")
                     ELSE returns(add_to_cart(catalog, file, product_id,
                                              quantity, user_id))
              [] func_name = "remove_from_cart" ->
                     returns(remove_from_cart(catalog, file, product_id, user_id))
              [] func_name = "update_cart_quantity" ->
                     IF quantity_is_str
                     THEN raises("'<=' not supported between 'str' and 'int'")
                     ELSE returns(update_cart_quantity(catalog, file, product_id,
                                                       quantity, user_id))
              [] func_name = "view_cart" ->
                     returns([result |-> view_cart(catalog, file, user_id),
                              file |-> file])
              [] func_name = "clear_cart" -> returns(clear_cart(user_id))
              [] func_name = "checkout" ->
                     LET r == checkout(catalog, file, ofile, user_id, uuid, now)
                     IN [raised |-> FALSE, result |-> r.result, file |-> r.file,
                         ofile |-> r.ofile]
              [] func_name = "search_products" ->
                     IF \/ bound_is_str("max_price") /\ compares_max
                        \/ bound_is_str("min_price") /\ compares_min
                     THEN raises("'>' not supported between 'float' and 'str'")
                     ELSE returns([result |->
                                       search_products(catalog, text_arg("query"),
                                                       text_arg("category"),
                                                       bound_arg("max_price"),
                                                       bound_arg("min_price")),
                                   file |-> file])

\* A text is the sequence of the fragments it is built from
RECURSIVE cart_lines_text(_)
cart_lines_text(entries) ==
    IF entries = <<>> THEN <<>>
    ELSE <<Head(entries).product_id, ToString(Head(entries).quantity),
           ToString(Head(entries).price), ToString(Head(entries).item_total)>>
             \o cart_lines_text(Tail(entries))

\* The lines of the products found, for the first three of them
RECURSIVE products_text(_)
products_text(found) ==
    IF found = <<>> THEN <<>>
    ELSE <<Head(found).name, Head(found).id, ToString(Head(found).price),
           ToString(Head(found).stock), Head(found).description>>
             \o products_text(Tail(found))

\* _format_function_result, for the operations the replies name
_format_function_result(func_name, result) ==
    CASE func_name = "search_products" ->
             IF result # <<>>
             THEN <<"I found ", ToString(Len(result)),
                    " products matching your search:">>
                      \o products_text(SubSeq(result, 1, IF Len(result) > 3 THEN 3
                                                         ELSE Len(result)))
                      \o (IF Len(result) > 3
                          THEN <<"... and ", ToString(Len(result) - 3),
                                 " more products.">>
                          ELSE <<>>)
                      \o <<"To add any item to your cart, just tell me">>
             ELSE <<"I couldn't find any products matching your search.">>
      [] func_name = "add_to_cart" ->
             IF result.success
             THEN <<"OK ", result.message,
                    "Would you like to view your cart or continue shopping?">>
             ELSE <<"FAILED ", result.message,
                    "Please check the product ID and try again.">>
      [] func_name = "view_cart" ->
             IF result.items # <<>>
             THEN <<"Your Cart", ToString(result.item_count)>>
                      \o cart_lines_text(result.items)
                      \o <<"Total: ", ToString(result.total)>>
             ELSE <<"Your cart is empty. Browse our products and add some items!">>
      [] OTHER -> <<ToString(result)>>

\* if func_name in self.function_map
is_registered_always(func_name) == TRUE

is_registered(func_name) == func_name \in function_map

\* The record of a call whose callable raised
error_record(func_name, func_args, error) ==
    [function |-> func_name, args |-> func_args, error |-> error]

\* The try block around the call: out is what the callable did; a result
\* is recorded and formatted, an exception is recorded and reported
executed(done, func_name, func_args, out) ==
    IF ~out.raised
    THEN [function_results |->
              Append(done.function_results,
                     [function |-> func_name, args |-> func_args,
                      result |-> out.result]),
          final_text |-> _format_function_result(func_name, out.result),
          file |-> out.file, ofile |-> out.ofile]
    ELSE [function_results |->
              Append(done.function_results,
                     error_record(func_name, func_args, out.error)),
          final_text |-> <<"I encountered an error executing ", func_name,
                           ": ", out.error>>,
          file |-> out.file, ofile |-> out.ofile]

\* A text part that leaves the text of the turn alone
part_text_ignored(done, text) == done

\* elif hasattr(part, 'text') and part.text: the text of the turn is the
\* text of the part
part_text(done, text) == [done EXCEPT !.final_text = <<text>>]

\* One pass of the loop over the parts of the reply. done holds
\* function_results, final_text and the two files as the parts before left
\* them
process_part(catalog, done, part, uuid, now) ==
    IF part.function_call # NoFunctionCall
    THEN IF is_registered(part.function_call.name)
         THEN executed(done, part.function_call.name, part.function_call.args,
                       invoke(catalog, done.file, done.ofile,
                              part.function_call.name, part.function_call.args,
                              uuid, now))
         ELSE [done EXCEPT !.final_text =
                               <<"Unknown function: ", part.function_call.name>>]
    ELSE IF part.text # ""
    THEN part_text(done, part.text)
    ELSE done

RECURSIVE process_parts(_, _, _, _, _)
process_parts(catalog, done, parts, uuid, now) ==
    IF parts = <<>> THEN done
    ELSE process_parts(catalog, process_part(catalog, done, Head(parts), uuid, now),
                       Tail(parts), uuid, now)

system_prompt == "You are a helpful customer service assistant for WRTeam Sport Center"

\* The model's answer to the system prompt
SystemReply == <<TextPart("Welcome to WRTeam Sport Center")>>

Content(role, parts) == [role |-> role, parts |-> parts]

\* A session started without the history passed in
history_without_passed(chat_history_in, message, reply) ==
    <<Content("user", <<TextPart(message)>>), Content("model", reply.parts)>>

\* A session that sends the system prompt on every turn
history_always_system(chat_history_in, message, reply) ==
    chat_history_in
        \o <<Content("user", <<TextPart(system_prompt)>>),
             Content("model", SystemReply)>>
        \o <<Content("user", <<TextPart(message)>>), Content("model", reply.parts)>>

\* chat.history after the turn: the history passed in, the exchange of the
\* system prompt when that history is empty, the message and the reply
history(chat_history_in, message, reply) ==
    chat_history_in
        \o (IF chat_history_in = <<>>
            THEN <<Content("user", <<TextPart(system_prompt)>>),
                   Content("model", SystemReply)>>
            ELSE <<>>)
        \o <<Content("user", <<TextPart(message)>>), Content("model", reply.parts)>>

\* The dict chat returns when an exception reaches its outer handler
error_response(e) ==
    [text |-> <<"I apologize, but I encountered an error: ", e,
                ". Please try again or contact our support team at support@wrteam.com.">>,
     function_calls |-> <<>>,
     error |-> e]

\* The end of chat, after the loop left done: the text falls back to
\* response.text when no part set one, and reading that may raise
returned(done, chat_history_out, text_raises) ==
    IF done.final_text = <<>> /\ text_raises
    THEN [response |-> error_response("response.text is not available"),
          file |-> done.file, ofile |-> done.ofile]
    ELSE [response |-> [text |-> done.final_text,
                        function_calls |-> done.function_results,
                        chat_history |-> chat_history_out],
          file |-> done.file, ofile |-> done.ofile]

\* chat: the dict returned and the two files afterwards. text_raises says
\* whether reading response.text raises for a reply that set no text
chat(catalog, file, ofile, message, chat_history_in, reply, uuid, now, text_raises) ==
    IF reply.failed
    THEN [response |-> error_response("inference failed"),
          file |-> file, ofile |-> ofile]
    ELSE returned(process_parts(catalog,
                                [function_results |-> <<>>, final_text |-> <<>>,
                                 file |-> file, ofile |-> ofile],
                                reply.parts, uuid, now),
                  history(chat_history_in, message, reply),
                  text_raises)

----------------------------------------------------------------------------
(* The last call and its result *)

\* A call: its arguments and the dict it returned, with two observations of
\* the state it ran in: the catalog price of product_id (0 when the catalog
\* has no such product) and whether the caller's cart had a line for it
Call(op, product_id, quantity, user_id, result) ==
    [op |-> op, product_id |-> product_id, quantity |-> quantity,
     user_id |-> user_id, result |-> result,
     seen_price |-> get_product_by_id(products, product_id).price,
     had_line |-> FirstLine(_load_cart(cartFile, user_id).items, product_id) # 0]

NoCall ==
    [op |-> "none", product_id |-> "", quantity |-> 0, user_id |-> "",
     result |-> Result(FALSE, "", ""), seen_price |-> 0, had_line |-> FALSE]

\* orders.json as an earlier session's add_to_cart("A", 1, "u1") and
\* checkout("u1") left it
EarlierOrdersFile ==
    checkout(SeedProducts,
             add_to_cart(SeedProducts, NoCartFile, "A", 1, "u1").file,
             NoOrdersFile, "u1", "ORD3F9A1C", 0).ofile

\* No chat turn has been taken
NoTurn == [message |-> "", reply |-> Reply(<<>>), uuid |-> "",
           response |-> [text |-> <<>>, function_calls |-> <<>>,
                         chat_history |-> <<>>]]

\* The session of the CLI before run() initializes the chatbot. api_key
\* says whether GEMINI_API_KEY is in the environment; tools are the
\* declarations the model was created with
NewSession(api_key) ==
    [pc |-> "start", api_key |-> api_key, event |-> "none",
     user_input |-> <<>>, prompted |-> 0, console |-> <<>>, tools |-> {}]

\* GeminiChatbot(): raises ValueError without the key; raises says whether
\* the construction fails otherwise
GeminiChatbot(api_key, raises) ==
    IF ~api_key
    THEN [raised |-> "ValueError",
          error |-> "GEMINI_API_KEY not found in environment variables",
          tools |-> {}]
    ELSE IF raises
    THEN [raised |-> "Exception", error |-> "construction failed", tools |-> {}]
    ELSE [raised |-> "", error |-> "", tools |-> function_declarations]

\* An initialization that reports the chatbot ready whatever happened
initialized_always(s, chatbot) ==
    [s EXCEPT !.pc = "awaiting", !.event = "ready", !.tools = chatbot.tools]

\* initialize_chatbot, and the return of run() when it is False
initialized(s, chatbot) ==
    IF chatbot.raised = ""
    THEN [s EXCEPT !.pc = "awaiting", !.event = "ready", !.tools = chatbot.tools]
    ELSE IF chatbot.raised = "ValueError"
    THEN [s EXCEPT !.pc = "ended", !.event = "not_ready",
                   !.console = <<"Error: ", chatbot.error,
                                 "Please set your GEMINI_API_KEY in a .env file">>]
    ELSE [s EXCEPT !.pc = "ended", !.event = "not_ready",
                   !.console = <<"Error initializing chatbot: ", chatbot.error>>]

initialize_chatbot(s, raises) == initialized(s, GeminiChatbot(s.api_key, raises))

----------------------------------------------------------------------------
Init ==
    /\ products = SeedProducts
    /\ cartFile = NoCartFile
    /\ ordersFile \in {NoOrdersFile, EarlierOrdersFile}
    /\ edits = 0
    /\ steps = 0
    /\ last = NoCall
    /\ turn = NoTurn
    /\ chat_history = <<>>
    /\ session = initialize_chatbot(NewSession(TRUE), FALSE)

\* datetime.now(): the wall clock, read as the number of calls and edits so
\* far in this session (timestamps order like their ISO strings)
datetime_now == steps + 1

\* Every call and edit counts against the length of the run; it is made
\* outside the chat, which stays where it was
Step ==
    /\ steps < MaxSteps
    /\ steps' = steps + 1
    /\ UNCHANGED <<turn, chat_history, session>>

AddToCart ==
    \E p \in ProductIds, k \in QuantityArgs, u \in Users :
        LET q == Quantity(k)
            r == add_to_cart(products, cartFile, p, q, u)
        IN /\ cartFile' = r.file
           /\ last' = Call("add_to_cart", p, q, u, r.result)
           /\ UNCHANGED <<products, ordersFile, edits>>
           /\ Step

RemoveFromCart ==
    \E p \in ProductIds, u \in Users :
        LET r == remove_from_cart(products, cartFile, p, u)
        IN /\ cartFile' = r.file
           /\ last' = Call("remove_from_cart", p, 0, u, r.result)
           /\ UNCHANGED <<products, ordersFile, edits>>
           /\ Step

UpdateCartQuantity ==
    \E p \in ProductIds, k \in QuantityArgs, u \in Users :
        LET q == Quantity(k)
            r == update_cart_quantity(products, cartFile, p, q, u)
        IN /\ cartFile' = r.file
           /\ last' = Call("update_cart_quantity", p, q, u, r.result)
           /\ UNCHANGED <<products, ordersFile, edits>>
           /\ Step

ClearCart ==
    \E u \in Users :
        LET r == clear_cart(u)
        IN /\ cartFile' = r.file
           /\ last' = Call("clear_cart", "", 0, u, r.result)
           /\ UNCHANGED <<products, ordersFile, edits>>
           /\ Step

Checkout ==
    \E u \in Users, id \in OrderIds :
        LET r == checkout(products, cartFile, ordersFile, u, id, datetime_now)
        IN /\ cartFile' = r.file
           /\ ordersFile' = r.ofile
           /\ last' = Call("checkout", "", 0, u, r.result)
           /\ products' = IF r.result.success
                          THEN products_after_order(products,
                                                    _load_cart(cartFile, u).items)
                          ELSE products
           /\ UNCHANGED edits
           /\ Step

\* products.json is maintained outside the program: one product's price or
\* stock is rewritten, or the product is deleted
ReplaceProduct(ps, i, new) == [ps EXCEPT ![i] = new]

DeleteProduct(ps, i) == SubSeq(ps, 1, i - 1) \o SubSeq(ps, i + 1, Len(ps))

CatalogEdit ==
    /\ edits < MaxEdits
    /\ \E i \in 1..Len(products) :
          \/ \E s \in StockLevels :
                products' = ReplaceProduct(products, i, [products[i] EXCEPT !.stock = s])
          \/ \E c \in Prices :
                products' = ReplaceProduct(products, i, [products[i] EXCEPT !.price = c])
          \/ products' = DeleteProduct(products, i)
    /\ products' # products
    /\ edits' = edits + 1
    /\ UNCHANGED <<cartFile, ordersFile, last>>
    /\ Step

Next ==
    \/ AddToCart
    \/ RemoveFromCart
    \/ UpdateCartQuantity
    \/ ClearCart
    \/ Checkout
    \/ CatalogEdit

Spec == Init /\ [][Next]_vars

\* The cart is looked at between the calls and edits
ViewCart ==
    \E u \in Users :
        /\ last' = Call("view_cart", "", 0, u, view_cart(products, cartFile, u))
        /\ UNCHANGED <<products, cartFile, ordersFile, edits>>
        /\ Step

NextView == Next \/ ViewCart

SpecView == Init /\ [][NextView]_vars

----------------------------------------------------------------------------
(* The chat session: the operations are called by the dispatch of the      *)
(* model's replies                                                         *)

Messages == {"add a football to my cart"}

\* Names the model proposes: cart operations, and one the registry lacks
ProposedNames ==
    {"add_to_cart", "remove_from_cart", "update_cart_quantity", "view_cart",
     "clear_cart", "checkout", "cancel_order"}

\* Argument maps the model proposes: none, well-formed ones, a quantity of
\* the wrong type, an argument no operation has
ProposedArgs ==
    {NoArgs,
     [product_id |-> Str("A")],
     [product_id |-> Str("A"), quantity |-> Num(2)],
     [product_id |-> Str("B"), quantity |-> Num(2)],
     [product_id |-> Str("A"), quantity |-> Str("two")],
     [product_id |-> Str("A"), colour |-> Str("red")]}

\* Replies of the model: one call, one text, no part, several parts, or a
\* failed inference call
Replies ==
    {Reply(<<CallPart(n, a)>>) : n \in ProposedNames, a \in ProposedArgs}
        \cup {Reply(<<TextPart("We are open 9AM-9PM")>>), Reply(<<>>)}
        \cup {Reply(<<TextPart("Adding it"), CallPart("add_to_cart", [product_id |-> Str("A")])>>),
              Reply(<<CallPart("add_to_cart", [product_id |-> Str("A")]), TextPart("Added it")>>),
              Reply(<<CallPart("add_to_cart", [product_id |-> Str("A")]),
                      CallPart("view_cart", NoArgs)>>),
              Reply(<<CallPart("cancel_order", NoArgs),
                      CallPart("clear_cart", NoArgs)>>),
              Reply(<<CallPart("checkout", [product_id |-> Str("A")]),
                      TextPart("Your order is placed")>>)}
        \cup {FailedInference}

\* A CLI that takes the history of every response, also of one without
Responded_resets_history(r, message, reply, uuid) ==
    /\ cartFile' = r.file
    /\ ordersFile' = r.ofile
    /\ turn' = [message |-> message, reply |-> reply, uuid |-> uuid,
                response |-> r.response]
    /\ chat_history' =
           IF "chat_history" \in DOMAIN r.response
           THEN r.response.chat_history
           ELSE <<>>

\* The CLI takes what chat returned: the history returned, when there is
\* one, replaces the history held
Responded(r, message, reply, uuid) ==
    /\ cartFile' = r.file
    /\ ordersFile' = r.ofile
    /\ turn' = [message |-> message, reply |-> reply, uuid |-> uuid,
                response |-> r.response]
    /\ chat_history' =
           IF "chat_history" \in DOMAIN r.response
              /\ r.response.chat_history # <<>>
           THEN r.response.chat_history
           ELSE chat_history

\* One turn of the CLI loop: the message goes to chat with the history held
Chat ==
    /\ steps < MaxTurns
    /\ \E message \in Messages, reply \in Replies, uuid \in OrderIds,
          text_raises \in BOOLEAN :
          Responded(chat(products, cartFile, ordersFile, message, chat_history,
                         reply, uuid, datetime_now, text_raises),
                    message, reply, uuid)
    /\ steps' = steps + 1
    /\ UNCHANGED <<products, edits, last, session>>

NextChat == Chat

SpecChat == Init /\ [][NextChat]_vars

----------------------------------------------------------------------------
(* The session loop of the CLI: ChatbotCLI.run *)

\* ['exit', 'quit', 'bye']
ExitWords == {<<"e", "x", "i", "t">>, <<"q", "u", "i", "t">>, <<"b", "y", "e">>}

\* What the user types at the prompt
Inputs ==
    {<<"e", "x", "i", "t">>, <<"Q", "u", "i", "t">>, <<"B", "Y", "E">>,
     <<" ", "b", "y", "e">>}

\* No reply of the session places an order, so no uuid is drawn in it
NoUuid == ""

\* Replies of the model in the session: a text, a search that finds
\* products and one that finds none, a call that succeeds, a call of a name
\* the registry lacks, a call that raises, no part, and a failed inference
\* call
CliReplies ==
    {Reply(<<TextPart("We are open 9AM-9PM")>>),
     Reply(<<CallPart("search_products", [query |-> Str(<<"b", "a", "l", "l">>)])>>),
     Reply(<<CallPart("search_products", [query |-> Str(<<"n", "e", "t">>)])>>),
     Reply(<<CallPart("add_to_cart", [product_id |-> Str("A")])>>),
     Reply(<<CallPart("cancel_order", NoArgs)>>),
     Reply(<<CallPart("checkout", [product_id |-> Str("A")])>>),
     Reply(<<>>),
     FailedInference}

\* run() leaves the loop
Ended(event) ==
    session' = [session EXCEPT !.pc = "ended", !.event = event]

\* except Exception: the loop goes on unless the user declines
AskedToContinue(continue) ==
    session' = [session EXCEPT !.pc = IF continue THEN "awaiting" ELSE "ended",
                               !.event = IF continue THEN "Exception_continued"
                                         ELSE "Exception_declined"]

\* The input was read
Prompted(user_input, pc, event) ==
    session' = [session EXCEPT !.pc = pc, !.event = event,
                               !.user_input = user_input,
                               !.prompted = @ + 1]

\* _should_ask_add_to_cart: a search_products call of the response has
\* found products
_should_ask_add_to_cart(response) ==
    \E i \in DOMAIN response.function_calls :
        /\ response.function_calls[i].function = "search_products"
        /\ "result" \in DOMAIN response.function_calls[i]
        /\ response.function_calls[i].result # <<>>

\* The rest of the iteration once chat returned r: the response is
\* displayed and its history taken, unless displaying it is interrupted
\* or raises; after a search that found products the user is asked
\* whether to add one to the cart
Displayed(r, user_input, reply, uuid, display, continue) ==
    \/ /\ display = "ok"
       /\ Responded(r, user_input, reply, uuid)
       /\ Prompted(user_input,
                   IF _should_ask_add_to_cart(r.response) THEN "confirm_add"
                   ELSE "awaiting",
                   "response")
    \/ /\ display # "ok"
       /\ cartFile' = r.file
       /\ ordersFile' = r.ofile
       /\ turn' = [message |-> user_input, reply |-> reply, uuid |-> uuid,
                   response |-> r.response]
       /\ chat_history' = chat_history
       /\ IF display = "KeyboardInterrupt"
          THEN Prompted(user_input, "ended", "KeyboardInterrupt")
          ELSE Prompted(user_input, IF continue THEN "awaiting" ELSE "ended",
                        IF continue THEN "Exception_continued"
                        ELSE "Exception_declined")

\* if not self.initialize_chatbot(): return
InitializeChatbot ==
    /\ session.pc = "start"
    /\ \E raises \in BOOLEAN : session' = initialize_chatbot(session, raises)
    /\ UNCHANGED <<products, cartFile, ordersFile, edits, steps, last, turn,
                   chat_history>>

\* One iteration of while True: the prompt, then the exit or the chat turn
Iteration ==
    /\ session.pc = "awaiting"
    /\ steps < MaxTurns
    /\ steps' = steps + 1
    /\ UNCHANGED <<products, edits, last>>
    /\ \/ /\ Ended("KeyboardInterrupt")
          /\ UNCHANGED <<cartFile, ordersFile, turn, chat_history>>
       \/ /\ \E continue \in BOOLEAN : AskedToContinue(continue)
          /\ UNCHANGED <<cartFile, ordersFile, turn, chat_history>>
       \/ \E user_input \in Inputs :
             /\ lower(user_input) \in ExitWords
             /\ Prompted(user_input, "ended", "exit_word")
             /\ UNCHANGED <<cartFile, ordersFile, turn, chat_history>>
       \/ \E user_input \in Inputs, reply \in CliReplies,
             text_raises \in BOOLEAN,
             display \in {"ok", "KeyboardInterrupt", "Exception"},
             continue \in BOOLEAN :
             /\ lower(user_input) \notin ExitWords
             /\ Displayed(chat(products, cartFile, ordersFile, user_input,
                                chat_history, reply, NoUuid, datetime_now,
                                text_raises),
                           user_input, reply, NoUuid, display, continue)

\* f"Add product {product_id} to cart, quantity {quantity}"
AddRequest(product_id, quantity) ==
    <<"Add product ", product_id, " to cart, quantity ", quantity>>

\* The end of the iteration after a search that found products: the user
\* declines, or names a product and a quantity, which go to chat as a new
\* message without the history held; the prompt may be interrupted or raise
AddToCartFollowUp ==
    /\ session.pc = "confirm_add"
    /\ UNCHANGED <<products, edits, last, steps>>
    /\ \/ /\ Ended("KeyboardInterrupt")
          /\ UNCHANGED <<cartFile, ordersFile, turn, chat_history>>
       \/ /\ \E continue \in BOOLEAN : AskedToContinue(continue)
          /\ UNCHANGED <<cartFile, ordersFile, turn, chat_history>>
       \/ /\ session' = [session EXCEPT !.pc = "awaiting", !.event = "no_add"]
          /\ UNCHANGED <<cartFile, ordersFile, turn, chat_history>>
       \/ \E product_id \in ProductIds, quantity \in {"1"},
             reply \in CliReplies, text_raises \in BOOLEAN :
             /\ Responded(chat(products, cartFile, ordersFile,
                               AddRequest(product_id, quantity), <<>>, reply,
                               NoUuid, datetime_now, text_raises),
                          AddRequest(product_id, quantity), reply, NoUuid)
             /\ Prompted(AddRequest(product_id, quantity), "awaiting", "response")

\* products.json with the names, categories and descriptions of the seeded
\* products
SeedCatalog ==
    <<Described(SeedProducts[1], <<"B", "a", "l", "l">>, <<"G", "e", "a", "r">>,
                <<"r", "e", "d">>),
      Described(SeedProducts[2], <<"B", "a", "t">>, <<"K", "i", "t">>,
                <<"f", "o", "r", " ", "b", "a", "l", "l", "s">>)>>

\* The state when run() is called
InitCli ==
    /\ products = SeedCatalog
    /\ cartFile = NoCartFile
    /\ ordersFile \in {NoOrdersFile, EarlierOrdersFile}
    /\ edits = 0
    /\ steps = 0
    /\ last = NoCall
    /\ turn = NoTurn
    /\ chat_history = <<>>
    /\ \E api_key \in BOOLEAN : session = NewSession(api_key)

NextCli == InitializeChatbot \/ Iteration \/ AddToCartFollowUp

SpecCli == InitCli /\ [][NextCli]_vars
----------------------------------------------------------------------------
(* The read operations of the catalog, called on catalogs of every shape   *)

\* Products a products.json may hold
CatalogProducts ==
    {Described(Product("A", price, stock), <<"B", "a", "l", "l">>,
               <<"G", "e", "a", "r">>, <<"r", "e", "d">>) :
         price \in Prices, stock \in StockLevels}
    \cup {Described(Product("B", price, stock), <<"B", "a", "t">>,
                    <<"K", "i", "t">>, <<"f", "o", "r", " ", "b", "a", "l", "l", "s">>) :
              price \in Prices, stock \in StockLevels}

\* products.json: empty or missing, one product, or two in either order
Catalogs ==
    {<<>>} \cup {<<p>> : p \in CatalogProducts}
           \cup {<<p, q>> : p, q \in CatalogProducts}

\* Ids asked about: those of the products, and one no catalog has
AskedIds == ProductIds \cup {"Z"}

Queries == {<<>>, <<"b", "a", "l", "l">>, <<"B", "A", "T">>, <<"n", "e", "t">>}
Categories == {<<>>, <<"g", "e", "a", "r">>, <<"k", "i">>}
PriceBounds == {NoBound} \cup {Bound(n) : n \in Prices}

InitCatalog ==
    /\ products \in Catalogs
    /\ \A i, j \in 1..Len(products) : products[i].id = products[j].id => i = j
    /\ cartFile = NoCartFile
    /\ ordersFile = NoOrdersFile
    /\ edits = 0
    /\ steps = 0
    /\ last = NoCall
    /\ turn = NoTurn
    /\ chat_history = <<>>
    /\ session = initialize_chatbot(NewSession(TRUE), FALSE)

CheckProductAvailability ==
    \E p \in AskedIds, n \in Quantities :
        /\ last' = [op |-> "check_product_availability", product_id |-> p,
                    quantity |-> n,
                    result |-> check_product_availability(products, p, n)]
        /\ UNCHANGED <<products, cartFile, ordersFile, edits, steps, turn,
                       chat_history, session>>

SearchProducts ==
    \E query \in Queries, category \in Categories,
       max_price \in PriceBounds, min_price \in PriceBounds :
        /\ last' = [op |-> "search_products", query |-> query,
                    category |-> category, max_price |-> max_price,
                    min_price |-> min_price,
                    result |-> search_products(products, query, category,
                                               max_price, min_price)]
        /\ UNCHANGED <<products, cartFile, ordersFile, edits, steps, turn,
                       chat_history, session>>

NextCatalog == CheckProductAvailability \/ SearchProducts

SpecCatalog == InitCatalog /\ [][NextCatalog]_vars

----------------------------------------------------------------------------
(* The read operations of the order collection, called on collections of   *)
(* every shape                                                             *)

\* The statuses an order takes, and one the program does not know
Statuses ==
    <<"pending", "processing", "shipped", "delivered", "cancelled", "refunded">>

TrackedIds == {"ORD001", "ORD002"}
CreatedAt == {1, 2, 3}

\* Orders an orders.json may hold: two ids, placed by either user at one of
\* three times, in a status that goes with the id and the time
StoredOrder(id, user_id, created_at) ==
    Order(id, user_id, <<CartItem("A", 1, 10)>>, 10,
          Statuses[IF id = "ORD001" THEN created_at ELSE created_at + 3],
          created_at)

OrderPool ==
    {StoredOrder(id, u, t) : id \in TrackedIds, u \in Users, t \in CreatedAt}

\* orders.json: missing, or up to three orders
OrdersFiles ==
    {NoOrdersFile}
        \cup {[exists |-> TRUE, orders |-> <<>>]}
        \cup {[exists |-> TRUE, orders |-> <<a>>] : a \in OrderPool}
        \cup {[exists |-> TRUE, orders |-> <<a, b>>] : a, b \in OrderPool}
        \cup {[exists |-> TRUE, orders |-> <<a, b, c>>] : a, b, c \in OrderPool}

Limits == {-1, 0, 1, 2, 3}

InitOrders ==
    /\ products = SeedProducts
    /\ cartFile = NoCartFile
    /\ ordersFile \in OrdersFiles
    /\ edits = 0
    /\ steps = 0
    /\ last = NoCall
    /\ turn = NoTurn
    /\ chat_history = <<>>
    /\ session = initialize_chatbot(NewSession(TRUE), FALSE)

TrackOrder ==
    \E order_id \in TrackedIds \cup {"ORD00"} :
        /\ last' = [op |-> "track_order", order_id |-> order_id,
                    result |-> track_order(ordersFile, order_id)]
        /\ UNCHANGED <<products, cartFile, ordersFile, edits, steps, turn,
                       chat_history, session>>

GetOrderHistory ==
    \E u \in Users, limit \in Limits :
        /\ last' = [op |-> "get_order_history", user_id |-> u, limit |-> limit,
                    result |-> get_order_history(ordersFile, u, limit)]
        /\ UNCHANGED <<products, cartFile, ordersFile, edits, steps, turn,
                       chat_history, session>>

NextOrders == TrackOrder \/ GetOrderHistory

SpecOrders == InitOrders /\ [][NextOrders]_vars

----------------------------------------------------------------------------
(* The dataclasses and their dicts. An instance is the tuple of its fields *)
(* in the order of the class, a dict the record of its keys; the stores    *)
(* above work on the dicts                                                 *)

\* CartItem(product_id, quantity, price), Cart(user_id, items) and
\* Order(id, user_id, items, total, status, created_at)
CartItem_to_dict(item) ==
    [product_id |-> item[1], quantity |-> item[2], price |-> item[3]]

\* CartItem(**item)
CartItem_from_dict(data) == <<data.product_id, data.quantity, data.price>>

Cart_to_dict(cart) ==
    [user_id |-> cart[1],
     items |-> [i \in DOMAIN cart[2] |-> CartItem_to_dict(cart[2][i])]]

\* A from_dict that reads the cart without its items
Cart_from_dict_without_items(data) == <<data.user_id, <<>>>>

Cart_from_dict(data) ==
    <<data.user_id, [i \in DOMAIN data.items |-> CartItem_from_dict(data.items[i])]>>

Order_to_dict(order) ==
    [id |-> order[1], user_id |-> order[2], items |-> order[3],
     total |-> order[4], status |-> order[5], created_at |-> order[6]]

\* cls(**data)
Order_from_dict(data) ==
    <<data.id, data.user_id, data.items, data.total, data.status, data.created_at>>

\* OrderFunctions._save_orders: orders.json is the list of the dicts
_save_orders(orders) ==
    [exists |-> TRUE, orders |-> [i \in DOMAIN orders |-> Order_to_dict(orders[i])]]

\* The instances _load_cart and _load_orders return
loaded_cart(file, user_id) == Cart_from_dict(_load_cart(file, user_id))

loaded_orders(file) ==
    [i \in DOMAIN _load_orders(file) |-> Order_from_dict(_load_orders(file)[i])]

\* Cart items and carts that are saved
ItemInstances == {<<"A", 1, 10>>, <<"A", 2, 10>>, <<"B", 1, 5>>}

CartInstances ==
    {<<u, items>> : u \in Users,
                    items \in {<<>>} \cup {<<a>> : a \in ItemInstances}
                                     \cup {<<a, b>> : a, b \in ItemInstances}}

\* Orders that are saved
OrderInstances ==
    {<<id, "u1", <<CartItem("A", 1, 10), CartItem("B", 2, 5)>>, 20, status, 1>> :
        id \in TrackedIds, status \in {"pending", "shipped"}}

OrderLists ==
    {<<>>} \cup {<<a>> : a \in OrderInstances}
           \cup {<<a, b>> : a, b \in OrderInstances}

\* Nothing saved or loaded yet
NoneSaved == [op |-> "none", cart |-> <<"", <<>>>>, orders |-> <<>>, loaded |-> <<>>]

InitModels ==
    /\ products = SeedProducts
    /\ cartFile = NoCartFile
    /\ ordersFile = NoOrdersFile
    /\ edits = 0
    /\ steps = 0
    /\ last = NoneSaved
    /\ turn = NoTurn
    /\ chat_history = <<>>
    /\ session = initialize_chatbot(NewSession(TRUE), FALSE)

SaveCart ==
    \E cart \in CartInstances :
        /\ cartFile' = _save_cart(Cart_to_dict(cart))
        /\ last' = [last EXCEPT !.op = "_save_cart", !.cart = cart]
        /\ UNCHANGED <<products, ordersFile, edits, steps, turn, chat_history,
                       session>>

LoadCart ==
    /\ last' = [last EXCEPT !.op = "_load_cart",
                            !.loaded = loaded_cart(cartFile, last.cart[1])]
    /\ UNCHANGED <<products, cartFile, ordersFile, edits, steps, turn,
                   chat_history, session>>

SaveOrders ==
    \E orders \in OrderLists :
        /\ ordersFile' = _save_orders(orders)
        /\ last' = [last EXCEPT !.op = "_save_orders", !.orders = orders]
        /\ UNCHANGED <<products, cartFile, edits, steps, turn, chat_history,
                       session>>

LoadOrders ==
    /\ last' = [last EXCEPT !.op = "_load_orders",
                            !.loaded = loaded_orders(ordersFile)]
    /\ UNCHANGED <<products, cartFile, ordersFile, edits, steps, turn,
                   chat_history, session>>

NextModels == SaveCart \/ LoadCart \/ SaveOrders \/ LoadOrders

SpecModels == InitModels /\ [][NextModels]_vars

----------------------------------------------------------------------------
(* checkout statement by statement. The call writes two files, orders.json *)
(* and then cart.json, and the process can be stopped between any two      *)
(* statements (the CLI is left by Ctrl-C or killed); the files keep what   *)
(* was written                                                             *)

\* The statement after each position of checkout, clearing the cart first
checkout_next_clear_first(pc) ==
    CASE pc = "create_order" -> "clear_cart"
      [] pc = "clear_cart" -> "save_order"
      [] pc = "save_order" -> "return"
      [] OTHER -> "return"

\* The statement after each position of checkout: the order is created,
\* saved, then the cart is cleared, then the dict is returned
checkout_next(pc) ==
    CASE pc = "create_order" -> "save_order"
      [] pc = "save_order" -> "clear_cart"
      [] pc = "clear_cart" -> "return"
      [] OTHER -> "return"

\* No call is under way
Idle == [op |-> "none", pc |-> "return", user_id |-> "",
         order |-> Order("", "", <<>>, 0, "", 0),
         result |-> Result(FALSE, "", ""), cleared |-> FALSE]

InitCheckout ==
    /\ products = SeedProducts
    /\ cartFile = NoCartFile
    /\ ordersFile \in {NoOrdersFile, EarlierOrdersFile}
    /\ edits = 0
    /\ steps = 0
    /\ last = Idle
    /\ turn = NoTurn
    /\ chat_history = <<>>
    /\ session = initialize_chatbot(NewSession(TRUE), FALSE)

\* A call starts when the one before has returned or was stopped
CallEnded == last.pc \in {"return", "stopped"}

\* add_to_cart, a whole call
AddBeforeCheckout ==
    /\ CallEnded
    /\ \E p \in ProductIds, q \in 1..MaxQty, u \in Users :
          LET r == add_to_cart(products, cartFile, p, q, u)
          IN /\ cartFile' = r.file
             /\ last' = [Idle EXCEPT !.op = "add_to_cart", !.user_id = u,
                                     !.result = r.result]
             /\ UNCHANGED <<products, ordersFile, edits>>
             /\ Step

\* checkout up to the order object: the cart is loaded and checked, the
\* order id and the time are drawn, nothing is written yet
CheckoutCreateOrder ==
    /\ CallEnded
    /\ \E u \in Users, id \in OrderIds :
          LET cart == _load_cart(cartFile, u)
              r == checkout(products, cartFile, ordersFile, u, id, datetime_now)
              order == Order(id, u, cart.items, SumLines(cart.items), "pending",
                             datetime_now)
          IN /\ last' = IF r.result.success
                        THEN [Idle EXCEPT !.op = "checkout", !.user_id = u,
                                          !.order = order, !.result = r.result,
                                          !.pc = checkout_next("create_order")]
                        ELSE [Idle EXCEPT !.op = "checkout", !.user_id = u,
                                          !.result = r.result]
             /\ UNCHANGED <<products, cartFile, ordersFile, edits>>
             /\ Step

\* "Save order": orders.json is read, the order appended, the file written
CheckoutSaveOrder ==
    /\ last.op = "checkout"
    /\ last.pc = "save_order"
    /\ ordersFile' = save_order(ordersFile, last.order)
    /\ last' = [last EXCEPT !.pc = checkout_next("save_order")]
    /\ UNCHANGED <<products, cartFile, edits, steps, turn, chat_history, session>>

\* "Clear cart": clear_cart(user_id) writes the empty cart of the user
CheckoutClearCart ==
    /\ last.op = "checkout"
    /\ last.pc = "clear_cart"
    /\ cartFile' = clear_cart(last.user_id).file
    /\ last' = [last EXCEPT !.pc = checkout_next("clear_cart"), !.cleared = TRUE]
    /\ UNCHANGED <<products, ordersFile, edits, steps, turn, chat_history,
                   session>>

\* The process is stopped inside checkout, before its next statement
CheckoutStopped ==
    /\ last.op = "checkout"
    /\ last.pc \in {"save_order", "clear_cart"}
    /\ last' = [last EXCEPT !.pc = "stopped"]
    /\ UNCHANGED <<products, cartFile, ordersFile, edits, steps, turn,
                   chat_history, session>>

NextCheckout ==
    \/ AddBeforeCheckout
    \/ CheckoutCreateOrder
    \/ CheckoutSaveOrder
    \/ CheckoutClearCart
    \/ CheckoutStopped

SpecCheckout == InitCheckout /\ [][NextCheckout]_vars

----------------------------------------------------------------------------
(* Two sessions on the same data directory. Each add_to_cart reads         *)
(* cart.json into a Cart of its own, changes that Cart, and writes it      *)
(* back; no lock is taken, so the other session's calls can run between    *)
(* the read and the write. last holds, per session, the call under way     *)

Sessions == {1, 2}

\* The cart the saving statement works on, were the file read again there
cart_at_save_reloaded(loaded, file) == file

\* The cart the saving statement works on: the Cart object loaded earlier in
\* the call, whatever cart.json holds by now
cart_at_save(loaded, file) == loaded

NoSessionCall ==
    [op |-> "none", pc |-> "returned", product_id |-> "", quantity |-> 0,
     user_id |-> "", loaded |-> NoCartFile, result |-> Result(FALSE, "", "")]

InitSessions ==
    /\ products = SeedProducts
    /\ cartFile = NoCartFile
    /\ ordersFile = NoOrdersFile
    /\ edits = 0
    /\ steps = 0
    /\ last = [s \in Sessions |-> NoSessionCall]
    /\ turn = NoTurn
    /\ chat_history = <<>>
    /\ session = initialize_chatbot(NewSession(TRUE), FALSE)

\* The checks add_to_cart makes before it loads the cart
passes_checks(catalog, product_id, quantity) ==
    /\ get_product_by_id(catalog, product_id) # NoProduct
    /\ check_product_availability(catalog, product_id, quantity).available

\* add_to_cart up to and including cart = self._load_cart(user_id); a call
\* that fails its checks returns without reading the cart
SessionLoad(s) ==
    /\ last[s].pc = "returned"
    /\ \E p \in ProductIds, q \in 1..MaxQty, u \in Users :
          /\ last' = [last EXCEPT ![s] =
                IF passes_checks(products, p, q)
                THEN [NoSessionCall EXCEPT !.op = "add_to_cart", !.pc = "loaded",
                          !.product_id = p, !.quantity = q, !.user_id = u,
                          !.loaded = cartFile]
                ELSE [NoSessionCall EXCEPT !.op = "add_to_cart",
                          !.product_id = p, !.quantity = q, !.user_id = u,
                          !.result = add_to_cart(products, NoCartFile, p, q, u).result]]
          /\ UNCHANGED <<products, cartFile, ordersFile, edits>>
          /\ Step

\* The rest of add_to_cart: the line is merged or appended in the loaded
\* Cart, which is written to cart.json; a merge over the stock returns
\* without writing
SessionSave(s) ==
    /\ last[s].pc = "loaded"
    /\ LET c == last[s]
           r == add_to_cart(products, cart_at_save(c.loaded, cartFile),
                            c.product_id, c.quantity, c.user_id)
       IN /\ cartFile' = IF r.result.success THEN r.file ELSE cartFile
          /\ last' = [last EXCEPT ![s] = [c EXCEPT !.pc = "returned",
                                                   !.result = r.result]]
    /\ UNCHANGED <<products, ordersFile, edits, steps, turn, chat_history,
                   session>>

NextSessions == \E s \in Sessions : SessionLoad(s) \/ SessionSave(s)

SpecSessions == InitSessions /\ [][NextSessions]_vars

----------------------------------------------------------------------------
(* The cart operations over a catalog nobody edits. The catalog is the     *)
(* seeded one, or holds product A only, so that B is an id the catalog     *)
(* lacks                                                                   *)

FixedCatalogs == {SeedProducts, <<SeedProducts[1]>>}

InitFixedCatalog ==
    /\ products \in FixedCatalogs
    /\ cartFile = NoCartFile
    /\ ordersFile = NoOrdersFile
    /\ edits = 0
    /\ steps = 0
    /\ last = NoCall
    /\ turn = NoTurn
    /\ chat_history = <<>>
    /\ session = initialize_chatbot(NewSession(TRUE), FALSE)

NextFixedCatalog ==
    \/ AddToCart
    \/ RemoveFromCart
    \/ UpdateCartQuantity
    \/ ClearCart
    \/ Checkout

SpecFixedCatalog == InitFixedCatalog /\ [][NextFixedCatalog]_vars

----------------------------------------------------------------------------
(* Vocabulary of the properties *)

InCatalog(ps, id) == \E i \in 1..Len(ps) : ps[i].id = id

StockOf(ps, id) == ps[CHOOSE i \in 1..Len(ps) : ps[i].id = id].stock

\* The lines of the cart user u sees: the stored lines when the stored cart
\* is u's, none otherwise
UserLines(file, u) ==
    IF file.exists /\ file.user_id = u THEN file.items ELSE <<>>

LinesFor(items, id) == {i \in 1..Len(items) : items[i].product_id = id}

\* The line asks for more than the catalog has, or for a product it lacks
Exceeds(ps, line) ==
    \/ ~InCatalog(ps, line.product_id)
    \/ line.quantity > StockOf(ps, line.product_id)

StoredOrders(file) == IF file.exists THEN file.orders ELSE <<>>

IsPrefix(s, t) == Len(s) <= Len(t) /\ SubSeq(t, 1, Len(s)) = s

RECURSIVE TotalOf(_, _)
TotalOf(lines, n) ==
    IF n = 0 THEN 0
    ELSE TotalOf(lines, n - 1) + lines[n].quantity * lines[n].price

\* The step is a call of an operation (not an out-of-band catalog edit)
CallStep == steps' = steps + 1 /\ edits' = edits

\* The stock the availability check reports: none for a product the catalog
\* lacks
StockSeen(ps, id) == IF InCatalog(ps, id) THEN StockOf(ps, id) ELSE 0

\* The stored cart is user u's and differs from lines at most in line i
SavedWithLine(file, u, lines, i) ==
    /\ file.exists
    /\ file.user_id = u
    /\ Len(file.items) = Len(lines)
    /\ \A j \in 1..Len(lines) : j # i => file.items[j] = lines[j]

----------------------------------------------------------------------------
(* C1: when a line of the caller's cart exceeds the current stock of its   *)
(* product, or its product has left the catalog, checkout fails, names     *)
(* such a product, and leaves orders.json and cart.json as they were.      *)
C1_FailedCheckoutIsAtomic ==
    [][LET lines == UserLines(cartFile, last'.user_id)
           bad == {i \in 1..Len(lines) : Exceeds(products, lines[i])}
       IN (CallStep /\ last'.op = "checkout" /\ bad # {})
              => /\ last'.result.success = FALSE
                 /\ \E i \in bad : last'.result.product_id = lines[i].product_id
                 /\ ordersFile' = ordersFile
                 /\ cartFile' = cartFile]_vars

\* A checkout has just been refused for a line that exceeds the stock
C1_Witness ==
    LET lines == UserLines(cartFile, last.user_id)
    IN /\ last.op = "checkout"
       /\ last.result.success = FALSE
       /\ last.result.message = "no longer available in requested quantity"
       /\ \E i \in 1..Len(lines) :
             /\ Exceeds(products, lines[i])
             /\ lines[i].product_id = last.result.product_id

(* C2: with a non-empty cart whose lines are all available, checkout       *)
(* appends exactly one order (caller's user_id, status pending, items the  *)
(* cart lines, total the sum of quantity x price), empties the stored      *)
(* cart, returns the order's id and total, and the order is then returned  *)
(* by get_user_orders(user) and by track_order(id).                        *)
C2_CheckoutCreatesOrder ==
    [][LET u == last'.user_id
           lines == UserLines(cartFile, u)
           old == StoredOrders(ordersFile)
           new == StoredOrders(ordersFile')
           o == new[Len(new)]
           mine == get_user_orders(ordersFile', u)
       IN (/\ CallStep
           /\ last'.op = "checkout"
           /\ lines # <<>>
           /\ \A i \in 1..Len(lines) : ~Exceeds(products, lines[i]))
              => /\ Len(new) = Len(old) + 1
                 /\ IsPrefix(old, new)
                 /\ o.user_id = u
                 /\ o.status = "pending"
                 /\ o.items = lines
                 /\ o.total = TotalOf(lines, Len(lines))
                 /\ cartFile'.exists
                 /\ cartFile'.items = <<>>
                 /\ last'.result.success
                 /\ last'.result.order_id = o.id
                 /\ last'.result.total = o.total
                 /\ \E k \in 1..Len(mine) : mine[k] = o
                 /\ track_order(ordersFile', o.id).order_id = o.id
                 /\ track_order(ordersFile', o.id).items = o.items
                 /\ track_order(ordersFile', o.id).total = o.total
                 /\ track_order(ordersFile', o.id).created_at = o.created_at]_vars

(* C3: checkout for a user whose loaded cart has no items fails with       *)
(* 'Cart is empty' and adds no order, whatever cart.json holds.            *)
C3_EmptyCartCheckoutFails ==
    [][(/\ CallStep
        /\ last'.op = "checkout"
        /\ UserLines(cartFile, last'.user_id) = <<>>)
           => /\ last'.result.success = FALSE
              /\ last'.result.message = "Cart is empty"
              /\ ordersFile' = ordersFile]_vars

\* An empty-cart refusal while cart.json holds another user's lines
C3_Witness ==
    /\ last.op = "checkout"
    /\ last.result.message = "Cart is empty"
    /\ cartFile.exists
    /\ cartFile.user_id # last.user_id
    /\ cartFile.items # <<>>

(* C4: the stored cart holds at most one line per product_id.              *)
C4_OneLinePerProduct ==
    \A i, j \in 1..Len(cartFile.items) :
        i # j => cartFile.items[i].product_id # cartFile.items[j].product_id

\* A repeated add of a product already in the cart has succeeded
C4_Witness ==
    /\ last.op = "add_to_cart"
    /\ last.result.success
    /\ last.had_line
    /\ LinesFor(UserLines(cartFile, last.user_id), last.product_id) # {}

(* C5 as stated: when add(p, q) and then add(p, q') by the same user both  *)
(* succeed with no call in between, the cart holds exactly one line for p, *)
(* with quantity q + q' and the catalog price at the first add.            *)
TwoAdds ==
    /\ CallStep
    /\ last.op = "add_to_cart" /\ last.result.success
    /\ last'.op = "add_to_cart" /\ last'.result.success
    /\ last'.user_id = last.user_id
    /\ last'.product_id = last.product_id

OneSummedLine ==
    LET items == cartFile'.items
        hits == LinesFor(items, last.product_id)
    IN /\ cartFile'.exists
       /\ cartFile'.user_id = last.user_id
       /\ Cardinality(hits) = 1
       /\ \A i \in hits :
             /\ items[i].quantity = last.quantity + last'.quantity
             /\ items[i].price = last.seen_price

C5_TwoAddsSum == [][TwoAdds => OneSummedLine]_vars

(* C5 amended: the same, for a cart that held no line for p before the     *)
(* first add.                                                              *)
C5_TwoAddsSumFromNoLine ==
    [][(TwoAdds /\ ~last.had_line) => OneSummedLine]_vars

\* A second add has merged into a line whose captured price is no longer
\* the catalog's
C5_Witness ==
    LET lines == UserLines(cartFile, last.user_id)
    IN /\ last.op = "add_to_cart"
       /\ last.result.success
       /\ last.had_line
       /\ last.quantity >= 1
       /\ \E i \in LinesFor(lines, last.product_id) :
             /\ lines[i].price # last.seen_price
             /\ lines[i].quantity > last.quantity

(* C6: add fails with 'Product not found' when the product is not in the   *)
(* catalog, and fails as unavailable when the quantity, or the quantity    *)
(* plus the one already in the caller's cart, exceeds the stock; in each   *)
(* case cart.json is left as it was.                                       *)
C6_FailedAddLeavesCart ==
    [][LET p == last'.product_id
           q == last'.quantity
           lines == UserLines(cartFile, last'.user_id)
           refused(msgs) == /\ last'.result.success = FALSE
                            /\ last'.result.message \in msgs
                            /\ cartFile' = cartFile
       IN (CallStep /\ last'.op = "add_to_cart")
              => /\ ~InCatalog(products, p) => refused({"Product not found"})
                 /\ (InCatalog(products, p) /\ q > StockOf(products, p))
                        => refused({"Not enough stock"})
                 /\ (/\ InCatalog(products, p)
                     /\ \E i \in LinesFor(lines, p) :
                           lines[i].quantity + q > StockOf(products, p))
                        => refused({"Not enough stock", "Cannot add more"})]_vars

\* An add has been refused because the merged quantity exceeds the stock
C6_Witness ==
    LET lines == UserLines(cartFile, last.user_id)
    IN /\ last.op = "add_to_cart"
       /\ last.result.message = "Cannot add more"
       /\ InCatalog(products, last.product_id)
       /\ last.quantity <= StockOf(products, last.product_id)
       /\ \E i \in LinesFor(lines, last.product_id) :
             lines[i].quantity + last.quantity > StockOf(products, last.product_id)

(* C7: every line of the stored cart has a quantity of at least 1.         *)
C7_QuantitiesPositive ==
    \A i \in 1..Len(cartFile.items) : cartFile.items[i].quantity >= 1

(* C8: the order collection only grows by appending: every stored order    *)
(* keeps its position and its fields, and none is removed.                 *)
C8_OrdersAppendOnly ==
    [][/\ IsPrefix(StoredOrders(ordersFile), StoredOrders(ordersFile'))
       /\ ordersFile.exists => ordersFile'.exists]_vars

\* A checkout has appended an order behind an earlier one
C8_Witness ==
    /\ last.op = "checkout"
    /\ last.result.success
    /\ Len(StoredOrders(ordersFile)) >= 2
    /\ StoredOrders(ordersFile)[Len(StoredOrders(ordersFile))].id = last.result.order_id

(* C9: the id of a new order differs from the id of every stored order, so *)
(* the stored orders have pairwise distinct ids.                           *)
C9_OrderIdsDistinct ==
    \A i, j \in 1..Len(StoredOrders(ordersFile)) :
        i # j => StoredOrders(ordersFile)[i].id # StoredOrders(ordersFile)[j].id

(* C10: for every stored cart, product and user, update_cart_quantity with *)
(* a quantity of zero or less returns what remove_from_cart returns and    *)
(* leaves the cart remove_from_cart leaves.                                *)
C10_UpdateToZeroIsRemove ==
    \A p \in ProductIds, u \in Users, q \in Quantities :
        q <= 0 => update_cart_quantity(products, cartFile, p, q, u)
                      = remove_from_cart(products, cartFile, p, u)

\* update_cart_quantity with a quantity of zero or less has removed a line
C10_Witness ==
    /\ last.op = "update_cart_quantity"
    /\ last.quantity <= 0
    /\ last.had_line
    /\ last.result.success
    /\ LinesFor(UserLines(cartFile, last.user_id), last.product_id) = {}

(* C11: update_cart_quantity with a quantity above 0, for a product that   *)
(* has a line in the caller's cart: when the quantity exceeds the stock    *)
(* the availability check reports, the call fails with the availability    *)
(* message and cart.json stays as it was; otherwise the line's quantity    *)
(* becomes exactly the new quantity, its captured price and every other    *)
(* line stay as they were, and the cart is saved.                          *)
C11_UpdateSetsQuantity ==
    [][LET u == last'.user_id
           p == last'.product_id
           q == last'.quantity
           lines == UserLines(cartFile, u)
           hits == LinesFor(lines, p)
       IN (/\ CallStep
           /\ last'.op = "update_cart_quantity"
           /\ q > 0
           /\ hits # {})
              => IF q > StockSeen(products, p)
                 THEN /\ last'.result.success = FALSE
                      /\ last'.result.message \in {"Not enough stock", "Product not found"}
                      /\ cartFile' = cartFile
                 ELSE /\ last'.result.success
                      /\ \E i \in hits :
                            /\ SavedWithLine(cartFile', u, lines, i)
                            /\ cartFile'.items[i] =
                                   CartItem(p, q, lines[i].price)]_vars

\* An update has changed the quantity of one of two lines, after the
\* catalog price of its product moved away from the captured one
C11_Witness ==
    LET lines == UserLines(cartFile, last.user_id)
    IN /\ last.op = "update_cart_quantity"
       /\ last.result.success
       /\ last.quantity > 1
       /\ last.had_line
       /\ \E i \in LinesFor(lines, last.product_id) :
             /\ lines[i].quantity = last.quantity
             /\ lines[i].price # last.seen_price

(* C12 as stated: update_cart_quantity with a quantity above 0, for a      *)
(* product that has no line in the caller's cart, fails with 'Product not  *)
(* found in cart' and leaves cart.json as it was.                          *)
UpdateWithoutLine ==
    /\ CallStep
    /\ last'.op = "update_cart_quantity"
    /\ last'.quantity > 0
    /\ LinesFor(UserLines(cartFile, last'.user_id), last'.product_id) = {}

C12_UpdateWithoutLineNotFound ==
    [][UpdateWithoutLine
          => /\ last'.result.success = FALSE
             /\ last'.result.message = "Product not found in cart"
             /\ cartFile' = cartFile]_vars

(* C12 amended: such a call fails and leaves cart.json as it was; the      *)
(* failure is 'Product not found in cart' when the quantity is within the  *)
(* stock the availability check reports, and the availability message      *)
(* when it is not.                                                         *)
C12_UpdateWithoutLineFails ==
    [][UpdateWithoutLine
          => /\ last'.result.success = FALSE
             /\ cartFile' = cartFile
             /\ IF last'.quantity > StockSeen(products, last'.product_id)
                THEN last'.result.message
                         \in {"Not enough stock", "Product not found"}
                ELSE last'.result.message = "Product not found in cart"]_vars

\* An update of a product outside a non-empty cart has been refused
C12_Witness ==
    /\ last.op = "update_cart_quantity"
    /\ last.quantity > 0
    /\ ~last.had_line
    /\ last.result.message = "Product not found in cart"
    /\ UserLines(cartFile, last.user_id) # <<>>

(* C13: remove_from_cart fails with 'Product not found in cart' and leaves *)
(* cart.json as it was when the caller's cart has no line for the product; *)
(* otherwise it deletes exactly that line, keeps every other line as it    *)
(* was and saves the cart, whether or not the catalog still has the        *)
(* product.                                                                *)
C13_RemoveDeletesOneLine ==
    [][LET u == last'.user_id
           lines == UserLines(cartFile, u)
           hits == LinesFor(lines, last'.product_id)
           left == cartFile'.items
       IN (CallStep /\ last'.op = "remove_from_cart")
              => IF hits = {}
                 THEN /\ last'.result.success = FALSE
                      /\ last'.result.message = "Product not found in cart"
                      /\ cartFile' = cartFile
                 ELSE /\ last'.result.success
                      /\ cartFile'.exists
                      /\ cartFile'.user_id = u
                      /\ Len(left) = Len(lines) - 1
                      /\ LinesFor(left, last'.product_id) = {}
                      /\ \E i \in hits :
                            \A j \in 1..Len(left) :
                                left[j] = IF j < i THEN lines[j] ELSE lines[j + 1]]_vars

\* A line has been removed whose product the catalog no longer has
C13_Witness ==
    /\ last.op = "remove_from_cart"
    /\ last.result.success
    /\ last.had_line
    /\ ~InCatalog(products, last.product_id)
    /\ cartFile.exists
    /\ LinesFor(cartFile.items, last.product_id) = {}

(* C14: view_cart lists exactly the caller's cart lines whose product is   *)
(* in the catalog, in cart order, each with the captured price, the        *)
(* quantity and item_total = captured price x quantity; total is the sum   *)
(* of the listed item_totals, item_count the number of listed entries;     *)
(* products.json, cart.json and orders.json stay as they were.             *)
Listed(ps, lines) == SelectSeq(lines, LAMBDA l : InCatalog(ps, l.product_id))

RECURSIVE SumItemTotals(_, _)
SumItemTotals(entries, n) ==
    IF n = 0 THEN 0 ELSE SumItemTotals(entries, n - 1) + entries[n].item_total

C14_ViewListsCatalogLines ==
    [][LET r == last'.result
           shown == Listed(products, UserLines(cartFile, last'.user_id))
       IN (CallStep /\ last'.op = "view_cart")
              => /\ Len(r.items) = Len(shown)
                 /\ \A k \in 1..Len(shown) :
                       /\ r.items[k].product_id = shown[k].product_id
                       /\ r.items[k].price = shown[k].price
                       /\ r.items[k].quantity = shown[k].quantity
                       /\ r.items[k].item_total = shown[k].price * shown[k].quantity
                 /\ r.total = SumItemTotals(r.items, Len(r.items))
                 /\ r.item_count = Len(shown)
                 /\ UNCHANGED <<products, cartFile, ordersFile>>]_vars

\* A view has left out the line of a product the catalog no longer has
C14_Witness ==
    /\ last.op = "view_cart"
    /\ UserLines(cartFile, last.user_id) # <<>>
    /\ last.result.item_count < Len(UserLines(cartFile, last.user_id))

(* C15: cart.json is a single slot. A load for user u returns the stored   *)
(* lines only when a stored cart exists whose user_id is u, and otherwise  *)
(* an empty cart of u, and writes nothing; after a successful add_to_cart, *)
(* clear_cart or checkout by one user, no lines are stored for any other   *)
(* user and a load for that user returns an empty cart.                    *)
Owns(file, u) == file.exists /\ file.user_id = u

C15_SingleSlot ==
    [][LET b == last'.user_id
           r == last'.result
       IN CallStep
              => /\ \A u \in Users :
                       _load_cart(cartFile', u) =
                           IF Owns(cartFile', u) THEN Cart(u, cartFile'.items)
                           ELSE Cart(u, <<>>)
                 /\ last'.op = "view_cart"
                       => /\ cartFile' = cartFile
                          /\ ~Owns(cartFile, b) => r.items = <<>>
                          /\ Owns(cartFile, b)
                                => Len(r.items) = Len(Listed(products, cartFile.items))
                 /\ (last'.op \in {"add_to_cart", "clear_cart", "checkout"} /\ r.success)
                       => \A a \in Users \ {b} :
                             /\ ~Owns(cartFile', a)
                             /\ _load_cart(cartFile', a) = Cart(a, <<>>)]_vars

\* A user sees an empty cart while cart.json holds another user's lines
C15_Witness ==
    /\ last.op = "view_cart"
    /\ last.result.items = <<>>
    /\ cartFile.exists
    /\ cartFile.user_id # last.user_id
    /\ cartFile.items # <<>>

(* C16: clear_cart succeeds whatever cart.json holds (nothing, the         *)
(* caller's cart, another user's cart); afterwards cart.json holds the     *)
(* empty cart of the caller, and orders.json and products.json are as they *)
(* were.                                                                   *)
C16_ClearAlwaysSucceeds ==
    [][(CallStep /\ last'.op = "clear_cart")
          => /\ last'.result.success
             /\ cartFile'.exists
             /\ cartFile'.user_id = last'.user_id
             /\ cartFile'.items = <<>>
             /\ ordersFile' = ordersFile
             /\ products' = products]_vars

\* A cart has been cleared in a session that has placed an order
C16_Witness ==
    /\ last.op = "clear_cart"
    /\ last.result.success
    /\ cartFile.exists
    /\ cartFile.user_id = last.user_id
    /\ cartFile.items = <<>>
    /\ \E i \in 1..Len(StoredOrders(ordersFile)) :
          StoredOrders(ordersFile)[i].created_at > 0

----------------------------------------------------------------------------
(* Vocabulary of the chat properties *)

\* The step is a chat turn in which the inference call answered
Answered == steps' = steps + 1 /\ ~turn'.reply.failed

\* The first part of the reply is a function call, the only part or not
FirstPartCalls(reply) ==
    /\ Len(reply.parts) >= 1
    /\ reply.parts[1].function_call # NoFunctionCall

\* The reply is one structured call
IsOneCall(reply) == FirstPartCalls(reply) /\ Len(reply.parts) = 1

\* chat returned its ordinary dict, not the one of its outer handler
ReturnedNormally(response) ==
    "chat_history" \in DOMAIN response /\ "error" \notin DOMAIN response

\* What the first call of the reply did in the state the turn started in
FirstOut ==
    invoke(products, cartFile, ordersFile,
           turn'.reply.parts[1].function_call.name,
           turn'.reply.parts[1].function_call.args, turn'.uuid, datetime_now)

\* The records of function_calls for a call of name with args
RecordsOf(function_calls, name, args) ==
    {i \in 1..Len(function_calls) :
        /\ function_calls[i].function = name
        /\ "args" \in DOMAIN function_calls[i]
        /\ function_calls[i].args = args}

C18_UnknownCallIsRecorded ==
    [][LET reply == turn'.reply
           calls == turn'.response.function_calls
       IN Answered
              => \A k \in 1..Len(reply.parts) :
                    LET name == reply.parts[k].function_call.name
                    IN (/\ reply.parts[k].function_call # NoFunctionCall
                        /\ name \notin function_map)
                           => \E i \in 1..Len(calls) :
                                 /\ calls[i].function = name
                                 /\ "result" \notin DOMAIN calls[i]]_vars

(* C19: when a call of the reply names a registered operation and the     *)
(* operation returns, function_calls holds exactly one record for the      *)
(* call, with the name, the arguments and the result, and the text of the  *)
(* turn is _format_function_result(name, result). Stated for the first     *)
(* part of the reply, which runs in the state the turn started in.         *)
RegisteredCallReturns ==
    /\ Answered
    /\ FirstPartCalls(turn'.reply)
    /\ turn'.reply.parts[1].function_call.name \in function_map
    /\ ~FirstOut.raised

ResultRecordedAndFormatted ==
    LET call == turn'.reply.parts[1].function_call
        response == turn'.response
        hits == RecordsOf(response.function_calls, call.name, call.args)
    IN /\ ReturnedNormally(response)
       /\ Cardinality(hits) = 1
       /\ \A i \in hits :
             response.function_calls[i] =
                 [function |-> call.name, args |-> call.args,
                  result |-> FirstOut.result]
       /\ response.text = _format_function_result(call.name, FirstOut.result)

C19_ResultRecordedAndFormatted ==
    [][RegisteredCallReturns => ResultRecordedAndFormatted]_vars

(* C20: when a call of the reply names a registered operation and the     *)
(* operation raises, chat returns its ordinary dict: the text names the    *)
(* operation and the error, function_calls holds a record with the name,   *)
(* the arguments and the error, the history returned has grown by this     *)
(* turn, and the CLI holds it for the next turn. Stated for the first      *)
(* part of the reply.                                                      *)
RegisteredCallRaises ==
    /\ Answered
    /\ FirstPartCalls(turn'.reply)
    /\ turn'.reply.parts[1].function_call.name \in function_map
    /\ FirstOut.raised

ErrorRecordedAndReported ==
    LET call == turn'.reply.parts[1].function_call
        response == turn'.response
    IN /\ ReturnedNormally(response)
       /\ \E i \in 1..Len(response.text) : response.text[i] = call.name
       /\ \E i \in 1..Len(response.text) : response.text[i] = FirstOut.error
       /\ \E i \in 1..Len(response.function_calls) :
             response.function_calls[i] =
                 [function |-> call.name, args |-> call.args,
                  error |-> FirstOut.error]
       /\ IsPrefix(chat_history, response.chat_history)
       /\ Len(response.chat_history) >= Len(chat_history) + 2
       /\ response.chat_history[Len(response.chat_history)] =
              Content("model", turn'.reply.parts)
       /\ chat_history' = response.chat_history

C20_ErrorRecordedAndReported ==
    [][RegisteredCallRaises => ErrorRecordedAndReported]_vars

----------------------------------------------------------------------------
(* C21: when the inference call of a turn fails, chat returns the apology   *)
(* that points to the support team, with the error marker and no call, no  *)
(* operation has run (the cart and orders files and the catalog are as     *)
(* before), the history the CLI holds is the one it held before the turn,  *)
(* and the session awaits the next input                                   *)

\* An iteration of the loop that read an input and displayed the response
\* of chat to it
ChatResponded ==
    /\ session.pc \in {"awaiting", "confirm_add"}
    /\ session'.prompted = session.prompted + 1
    /\ session'.event = "response"

InferenceFails == ChatResponded /\ turn'.reply.failed

ApologyWithSupport(text) ==
    /\ Len(text) = 3
    /\ text[1] = "I apologize, but I encountered an error: "
    /\ text[3] = ". Please try again or contact our support team at support@wrteam.com."

InferenceFailureIsAnswered ==
    InferenceFails =>
        /\ DOMAIN turn'.response = {"text", "function_calls", "error"}
        /\ ApologyWithSupport(turn'.response.text)
        /\ turn'.response.text[2] = turn'.response.error
        /\ turn'.response.function_calls = <<>>
        /\ cartFile' = cartFile
        /\ ordersFile' = ordersFile
        /\ products' = products
        /\ chat_history' = chat_history
        /\ session'.pc = "awaiting"

C21_InferenceFailureIsAnswered == [][InferenceFailureIsAnswered]_vars

\* An inference failure in a session that holds a history and a cart line
C21_Witness ==
    /\ turn.reply.failed
    /\ "error" \in DOMAIN turn.response
    /\ chat_history # <<>>
    /\ cartFile # NoCartFile
    /\ session.event = "response"
    /\ session.pc = "awaiting"

----------------------------------------------------------------------------
(* C22: when the reply of the model is plain text, the text of the turn is *)
(* that text as it stands, no call is recorded and no operation runs: the  *)
(* cart file, the orders file and the catalog are as before                *)

IsPlainText(reply) ==
    /\ Len(reply.parts) = 1
    /\ reply.parts[1].function_call = NoFunctionCall
    /\ reply.parts[1].text # ""

PlainTextIsReturned ==
    (Answered /\ IsPlainText(turn'.reply)) =>
        /\ ReturnedNormally(turn'.response)
        /\ turn'.response.text = <<turn'.reply.parts[1].text>>
        /\ turn'.response.function_calls = <<>>
        /\ cartFile' = cartFile
        /\ ordersFile' = ordersFile
        /\ products' = products

C22_PlainTextIsReturned == [][PlainTextIsReturned]_vars

\* A plain text reply in a session whose user has a cart line
C22_Witness ==
    /\ IsPlainText(turn.reply)
    /\ turn.response.text = <<"We are open 9AM-9PM">>
    /\ cartFile # NoCartFile

----------------------------------------------------------------------------
(* C23: on every turn that chat completes without a fault, the history it  *)
(* returns starts with the history passed in and goes on with the user     *)
(* message and the model reply of this turn; what it adds comes from this  *)
(* turn alone (at most the exchange of the system prompt before the        *)
(* message), so the result depends on nothing chat kept from earlier calls *)

SystemExchange ==
    <<Content("user", <<TextPart(system_prompt)>>), Content("model", SystemReply)>>

ThisExchange ==
    <<Content("user", <<TextPart(turn'.message)>>),
      Content("model", turn'.reply.parts)>>

HistoryIsExtended ==
    (Answered /\ ReturnedNormally(turn'.response)) =>
        /\ IsPrefix(chat_history, turn'.response.chat_history)
        /\ turn'.response.chat_history
               \in {chat_history \o ThisExchange,
                    chat_history \o SystemExchange \o ThisExchange}
        /\ chat_history' = turn'.response.chat_history

C23_HistoryIsExtended == [][HistoryIsExtended]_vars

\* A second completed turn: the history returned holds the first turn and
\* then this one
C23_Witness ==
    /\ steps = 2
    /\ ReturnedNormally(turn.response)
    /\ Len(turn.response.chat_history) = 6
    /\ turn.response.chat_history[6] = Content("model", turn.reply.parts)
    /\ turn.response.chat_history[4] # Content("model", turn.reply.parts)

----------------------------------------------------------------------------
(* C24: the system prompt goes to the model exactly on the turns whose     *)
(* history passed in is empty; it is then the first message of the         *)
(* session, before the user message of the turn; on a turn with a history  *)
(* it is not sent again                                                    *)

SystemMessage == Content("user", <<TextPart(system_prompt)>>)

\* What the turn added to the history passed in
Added ==
    SubSeq(turn'.response.chat_history, Len(chat_history) + 1,
           Len(turn'.response.chat_history))

SystemPromptOnlyFirst ==
    (Answered /\ ReturnedNormally(turn'.response)) =>
        /\ (chat_history = <<>>) <=> (\E i \in DOMAIN Added : Added[i] = SystemMessage)
        /\ chat_history = <<>> =>
               /\ turn'.response.chat_history[1] = SystemMessage
               /\ \A i \in DOMAIN Added :
                      Added[i] = Content("user", <<TextPart(turn'.message)>>) => i > 1
               /\ \A i \in DOMAIN Added : Added[i] = SystemMessage => i = 1

C24_SystemPromptOnlyFirst == [][SystemPromptOnlyFirst]_vars

\* A turn with a history: the system prompt is in the history once, at its
\* head, and the turn added its message and reply only
C24_Witness ==
    /\ steps = 2
    /\ ReturnedNormally(turn.response)
    /\ Len(turn.response.chat_history) = 6
    /\ turn.response.chat_history[1] = SystemMessage
    /\ \A i \in 2..6 : turn.response.chat_history[i] # SystemMessage
    /\ turn.response.chat_history[5] = Content("user", <<TextPart(turn.message)>>)

----------------------------------------------------------------------------
(* C25: in one turn at most one operation of the registry runs and at most *)
(* one call is recorded, however many parts the reply has                  *)

\* The records of the turn whose operation ran: those with a result
Ran(function_calls) ==
    {i \in DOMAIN function_calls : "result" \in DOMAIN function_calls[i]}

AtMostOneCall ==
    (Answered /\ ReturnedNormally(turn'.response)) =>
        /\ Len(turn'.response.function_calls) <= 1
        /\ Cardinality(Ran(turn'.response.function_calls)) <= 1

C25_AtMostOneCall == [][AtMostOneCall]_vars

----------------------------------------------------------------------------
(* C26: the operations declared to the model are the operations of the     *)
(* registry: every name of function_map is declared and every declared     *)
(* name is in function_map                                                 *)

C26_DeclaredIsRegistry ==
    session.pc = "awaiting" =>
        /\ \A name \in function_map : name \in session.tools
        /\ \A name \in session.tools : name \in function_map

----------------------------------------------------------------------------
(* C27: the session loop ends only on an input that is one of the exit     *)
(* words exit, quit, bye whatever its case, on a keyboard interrupt, or    *)
(* when the user declines to continue after an exception; such an input    *)
(* ends it without a chat turn, and every response of chat, also the one   *)
(* to an unknown operation, to an operation that raised and to a failed    *)
(* inference call, leaves the loop awaiting the next input: the next       *)
(* message or, after a search that found products, the answer to the       *)
(* question whether to add one to the cart                                 *)

AwaitingInput(s) == s.pc \in {"awaiting", "confirm_add"}

\* The two texts have the same letters, whatever their case
SameIgnoringCase(a, b) ==
    /\ Len(a) = Len(b)
    /\ \A i \in DOMAIN a :
           \/ a[i] = b[i]
           \/ \E k \in DOMAIN UpperCase :
                  {a[i], b[i]} = {UpperCase[k], LowerCase[k]}

IsExitWord(text) ==
    \E word \in {<<"e", "x", "i", "t">>, <<"q", "u", "i", "t">>, <<"b", "y", "e">>} :
        SameIgnoringCase(text, word)

InputRead == session.pc = "awaiting" /\ session'.prompted = session.prompted + 1

LoopEndsOnlyOnExit ==
    /\ (AwaitingInput(session) /\ session'.pc = "ended") =>
           \/ InputRead /\ IsExitWord(session'.user_input)
           \/ session'.event = "KeyboardInterrupt"
           \/ session'.event = "Exception_declined"
    /\ (InputRead /\ IsExitWord(session'.user_input)) =>
           /\ session'.pc = "ended"
           /\ turn' = turn
           /\ cartFile' = cartFile
    /\ ChatResponded =>
           /\ ~IsExitWord(session'.user_input)
           /\ turn'.message = session'.user_input
           /\ AwaitingInput(session')

C27_LoopEndsOnlyOnExit == [][LoopEndsOnlyOnExit]_vars

\* The loop went on after the response to a call that raised, and ended on
\* an exit word typed in capitals
C27_Witness ==
    /\ session.pc = "ended"
    /\ session.event = "exit_word"
    /\ session.user_input \notin ExitWords
    /\ session.prompted = 2
    /\ Len(turn.response.function_calls) = 1
    /\ "error" \in DOMAIN turn.response.function_calls[1]

----------------------------------------------------------------------------
(* C28: without GEMINI_API_KEY in the environment the initialization       *)
(* prints the error and the hint to set the key and reports not ready, and *)
(* the session never starts: no input is read, no chat turn is taken and   *)
(* no store operation runs                                                 *)

C28_NoSessionWithoutKey ==
    ~session.api_key =>
        /\ session.pc \in {"start", "ended"}
        /\ session.pc = "ended" =>
               /\ session.event = "not_ready"
               /\ session.console =
                      <<"Error: ", "GEMINI_API_KEY not found in environment variables",
                        "Please set your GEMINI_API_KEY in a .env file">>
        /\ session.prompted = 0
        /\ session.user_input = <<>>
        /\ turn = NoTurn
        /\ chat_history = <<>>
        /\ cartFile = NoCartFile
        /\ ordersFile \in {NoOrdersFile, EarlierOrdersFile}
        /\ steps = 0

\* run() returned after the initialization without the key
C28_Witness ==
    /\ ~session.api_key
    /\ session.pc = "ended"
    /\ session.event = "not_ready"

----------------------------------------------------------------------------
(* C29: check_product_availability(id, n) answers available false and      *)
(* stock 0 for every id the catalog lacks, whatever n; for an id of the    *)
(* catalog it answers the stock of the product and available exactly when  *)
(* that stock is at least n; it changes none of the three files            *)

AvailabilityIsStockAgainstQuantity ==
    (last'.op = "check_product_availability") =>
        /\ IF InCatalog(products, last'.product_id)
           THEN /\ last'.result.stock = StockOf(products, last'.product_id)
                /\ last'.result.available
                       <=> (StockOf(products, last'.product_id) >= last'.quantity)
           ELSE /\ last'.result.stock = 0
                /\ last'.result.available = FALSE
        /\ products' = products
        /\ cartFile' = cartFile
        /\ ordersFile' = ordersFile

C29_AvailabilityIsStockAgainstQuantity ==
    [][AvailabilityIsStockAgainstQuantity]_vars

\* A product in stock asked for in a quantity above its stock
C29_Witness ==
    /\ last.op = "check_product_availability"
    /\ InCatalog(products, last.product_id)
    /\ last.result.stock = 1
    /\ last.quantity = 2
    /\ ~last.result.available

----------------------------------------------------------------------------
(* C30: search_products returns the products of the catalog, in the order  *)
(* of the file, that pass every filter supplied: the query in the name or  *)
(* the description and the category equal, both whatever the case, and the *)
(* price from min_price to max_price, bounds included; without any filter  *)
(* it returns the whole catalog, and when no product passes, the empty list *)

HasIgnoringCase(text, sub) ==
    \E i \in 1..(Len(text) - Len(sub) + 1) :
        SameIgnoringCase(SubSeq(text, i, i + Len(sub) - 1), sub)

Passing ==
    {i \in 1..Len(products) :
        /\ \/ last.query = <<>>
           \/ HasIgnoringCase(products[i].name, last.query)
           \/ HasIgnoringCase(products[i].description, last.query)
        /\ \/ last.category = <<>>
           \/ SameIgnoringCase(products[i].category, last.category)
        /\ last.max_price.given => products[i].price <= last.max_price.value
        /\ last.min_price.given => last.min_price.value <= products[i].price}

\* The k-th of the passing products in the order of the file
KthPassing(k) ==
    CHOOSE i \in Passing : Cardinality({j \in Passing : j < i}) = k - 1

C30_SearchIsFilteredCatalog ==
    (last.op = "search_products") =>
        /\ Len(last.result) = Cardinality(Passing)
        /\ \A k \in 1..Len(last.result) : last.result[k] = products[KthPassing(k)]
        /\ (/\ last.query = <<>>
            /\ last.category = <<>>
            /\ ~last.max_price.given
            /\ ~last.min_price.given) => last.result = products
        /\ Passing = {} => last.result = <<>>

\* A search by category in other letters and with both bounds at the price
\* of the second product of the file, which alone is returned
C30_Witness ==
    /\ last.op = "search_products"
    /\ Len(products) = 2
    /\ last.category = <<"g", "e", "a", "r">>
    /\ last.max_price = Bound(products[2].price)
    /\ last.min_price = Bound(products[2].price)
    /\ last.result = <<products[2]>>

----------------------------------------------------------------------------
(* C31: get_order_history(user, limit) returns orders of that user only,   *)
(* the newest first, and cut to the limit: it returns as many orders as    *)
(* the limit allows, none for a limit that allows none, and they are the   *)
(* newest of the user's orders; this for every integer limit               *)

\* The stored orders of the user asked about
MineStored ==
    {i \in 1..Len(_load_orders(ordersFile)) :
        _load_orders(ordersFile)[i].user_id = last.user_id}

\* The stored orders of the user that are newer than order
Newer(order) ==
    {i \in MineStored : _load_orders(ordersFile)[i].created_at > order.created_at}

HistoryIsNewestWithinLimit ==
    /\ \A k \in 1..Len(last.result) :
           /\ last.result[k].user_id = last.user_id
           /\ \E i \in MineStored : _load_orders(ordersFile)[i] = last.result[k]
           /\ Cardinality(Newer(last.result[k])) < k
    /\ \A k, l \in 1..Len(last.result) :
           k < l => last.result[k].created_at >= last.result[l].created_at
    /\ Len(last.result) <= (IF last.limit < 0 THEN 0 ELSE last.limit)
    /\ Len(last.result) = Cardinality(MineStored)
           \/ Len(last.result) = (IF last.limit < 0 THEN 0 ELSE last.limit)

C31_HistoryIsNewestWithinLimit ==
    (last.op = "get_order_history") => HistoryIsNewestWithinLimit

----------------------------------------------------------------------------
(* C32: track_order(id) returns None when no stored order has that id;     *)
(* otherwise it returns the first stored order of that id with a sentence  *)
(* on the delivery that its status alone decides: one sentence for each of *)
(* pending, processing, shipped, delivered and cancelled, and "Status      *)
(* unknown" for any other status                                           *)

\* The stored orders of the id asked about
Tracked ==
    {i \in 1..Len(_load_orders(ordersFile)) :
        _load_orders(ordersFile)[i].id = last.order_id}

FirstTracked ==
    _load_orders(ordersFile)[CHOOSE i \in Tracked : \A j \in Tracked : i <= j]

DeliverySentence(status) ==
    IF status = "pending"
    THEN "Order is being processed. Estimated delivery: 3-5 business days"
    ELSE IF status = "processing"
    THEN "Order is being prepared. Estimated delivery: 2-4 business days"
    ELSE IF status = "shipped"
    THEN "Order has been shipped. Estimated delivery: 1-2 business days"
    ELSE IF status = "delivered" THEN "Order has been delivered"
    ELSE IF status = "cancelled" THEN "Order has been cancelled"
    ELSE "Status unknown"

C32_TrackReturnsFirstOrder ==
    (last.op = "track_order") =>
        IF Tracked = {}
        THEN last.result = NoTrack
        ELSE /\ last.result.order_id = last.order_id
             /\ last.result.status = FirstTracked.status
             /\ last.result.created_at = FirstTracked.created_at
             /\ last.result.total = FirstTracked.total
             /\ last.result.items = FirstTracked.items
             /\ last.result.estimated_delivery = DeliverySentence(FirstTracked.status)

\* Two stored orders of one id in different statuses, the first of them in
\* a status the program does not know
C32_Witness ==
    /\ last.op = "track_order"
    /\ Cardinality(Tracked) = 2
    /\ FirstTracked.status = "refunded"
    /\ \E i \in Tracked : _load_orders(ordersFile)[i].status = "delivered"
    /\ last.result.estimated_delivery = "Status unknown"

----------------------------------------------------------------------------
(* C33: a Cart that was saved and is loaded back is equal to the one       *)
(* saved, field for field: the user_id and the items with their            *)
(* product_id, quantity and price; and the Orders saved and loaded back    *)
(* are equal to the ones saved in id, user_id, items, total, status and    *)
(* created_at                                                              *)

C33_SavedIsLoaded ==
    /\ (last.op = "_load_cart" /\ cartFile.exists) =>
           /\ last.loaded = last.cart
           /\ last.loaded[1] = last.cart[1]
           /\ Len(last.loaded[2]) = Len(last.cart[2])
           /\ \A i \in DOMAIN last.cart[2], f \in 1..3 :
                  last.loaded[2][i][f] = last.cart[2][i][f]
    /\ (last.op = "_load_orders" /\ ordersFile.exists) =>
           /\ Len(last.loaded) = Len(last.orders)
           /\ \A i \in DOMAIN last.orders, f \in 1..6 :
                  last.loaded[i][f] = last.orders[i][f]

\* A cart of two items was saved and loaded, after orders were
C33_Witness ==
    /\ last.op = "_load_cart"
    /\ Len(last.cart[2]) = 2
    /\ last.cart[2][1] # last.cart[2][2]
    /\ last.loaded[2][2] = last.cart[2][2]
    /\ Len(last.orders) = 2
    /\ ordersFile.exists

----------------------------------------------------------------------------
(* C34: no operation writes the product collection: over every call, a     *)
(* successful checkout included, every product keeps its price and its     *)
(* stock, so an order takes nothing off the stock                          *)

C34_CatalogIsReadOnly == [][CallStep => products' = products]_vars

\* A checkout has placed an order for a product whose stock is as seeded
C34_Witness ==
    /\ last.op = "checkout"
    /\ last.result.success
    /\ \E i \in 1..Len(StoredOrders(ordersFile)) :
           /\ StoredOrders(ordersFile)[i].id = last.result.order_id
           /\ \E k \in 1..Len(StoredOrders(ordersFile)[i].items) :
                  /\ StoredOrders(ordersFile)[i].items[k].product_id = "A"
                  /\ StoredOrders(ordersFile)[i].items[k].quantity >= 1
    /\ InCatalog(products, "A")
    /\ StockOf(products, "A") = StockOf(SeedProducts, "A")

----------------------------------------------------------------------------
(* C35: within a checkout the order is appended to orders.json strictly    *)
(* before the cart is cleared: the statement that clears the cart runs     *)
(* with the order already stored, and in no state has a checkout cleared   *)
(* the cart while its order is not stored. (The state with the order       *)
(* stored and the cart still holding its lines, where execution stopped    *)
(* between the two statements, is the witness.)                            *)

OrderRecorded ==
    \E i \in 1..Len(StoredOrders(ordersFile)) :
        StoredOrders(ordersFile)[i] = last.order

ClearedByCheckout == last.op = "checkout" /\ last.cleared

C35_OrderSavedBeforeCartCleared ==
    /\ [](ClearedByCheckout => OrderRecorded)
    /\ [][ClearedByCheckout' /\ ~ClearedByCheckout => OrderRecorded]_vars

\* Execution stopped between the two statements: the order is stored and
\* the user's cart still holds the lines ordered
C35_Witness ==
    /\ last.op = "checkout"
    /\ last.pc = "stopped"
    /\ OrderRecorded
    /\ ~last.cleared
    /\ _load_cart(cartFile, last.user_id).items # <<>>
    /\ _load_cart(cartFile, last.user_id).items = last.order.items

----------------------------------------------------------------------------
(* C36: two sessions adding to the cart of the same user without a lock    *)
(* give last-write-wins: what a successful add leaves in cart.json is the  *)
(* cart that call loaded plus its own product, whatever the other session  *)
(* wrote since the load. (The interleaving in which two adds of different  *)
(* products both report success and the stored cart holds only one of      *)
(* them is the witness.)                                                   *)

HasLine(file, user_id, product_id) ==
    FirstLine(_load_cart(file, user_id).items, product_id) # 0

SavedBy(s) ==
    /\ last[s].pc = "loaded"
    /\ last'[s].pc = "returned"
    /\ last'[s].result.success

C36_LastWriteWins ==
    [][\A s \in Sessions :
          SavedBy(s) =>
              /\ HasLine(cartFile', last[s].user_id, last[s].product_id)
              /\ \A p \in ProductIds \ {last[s].product_id} :
                    HasLine(cartFile', last[s].user_id, p)
                        <=> HasLine(last[s].loaded, last[s].user_id, p)]_vars

\* Both sessions added to the same user's cart, different products, both
\* were told success, and the stored cart holds one product only
C36_Witness ==
    /\ \A s \in Sessions :
          /\ last[s].op = "add_to_cart"
          /\ last[s].pc = "returned"
          /\ last[s].result.success
          /\ last[s].user_id = "u1"
    /\ last[1].product_id # last[2].product_id
    /\ Len(_load_cart(cartFile, "u1").items) = 1

----------------------------------------------------------------------------
(* C37: the conversation history the CLI holds only grows: over every      *)
(* step of the session, the follow-up add-to-cart request after a search   *)
(* that found products included, the history held afterwards has the       *)
(* history held before as a prefix                                         *)

C37_HistoryOnlyGrows == [][IsPrefix(chat_history, chat_history')]_vars

----------------------------------------------------------------------------
(* C38: with a catalog that does not change and a stored cart that starts  *)
(* empty, after any calls of add, remove, update, clear and checkout every *)
(* line of the stored cart names a product of the catalog and has a        *)
(* quantity no greater than that product's stock                           *)

C38_CartWithinCatalog ==
    \A i \in 1..Len(cartFile.items) :
        /\ InCatalog(products, cartFile.items[i].product_id)
        /\ cartFile.items[i].quantity
               <= StockOf(products, cartFile.items[i].product_id)

\* A line stands at the whole stock of its product after two adds, and an
\* add of a product the catalog lacks has just been turned down
C38_Witness ==
    /\ last.op = "add_to_cart"
    /\ ~last.result.success
    /\ ~InCatalog(products, last.product_id)
    /\ \E i \in 1..Len(cartFile.items) :
          /\ cartFile.items[i].quantity > MaxQty
          /\ cartFile.items[i].quantity
                 = StockOf(products, cartFile.items[i].product_id)

====
